---- MODULE Spec2Model ----
(***************************************************************************)
(* URLGuard: the background service worker (src/background.js) and the     *)
(* popup's settings paths (src/popup.js) as a state machine.               *)
(*                                                                         *)
(* JavaScript strings are TLA+ strings, read with Len, SubSeq and \o.      *)
(* A JavaScript array used only through includes/filter/push-if-absent     *)
(* (the two domain lists) is a set.                                        *)
(***************************************************************************)
EXTENDS Integers, Sequences, FiniteSets, Bags, TLC

(***************************************************************************)
(* String primitives: the methods of String.prototype the code uses        *)
(***************************************************************************)

Min2(a, b) == IF a <= b THEN a ELSE b

Max2(a, b) == IF a >= b THEN a ELSE b

\* s.charAt(i - 1): the i-th character, 1-based
CharAt(s, i) == SubSeq(s, i, i)

\* s.startsWith(sub, i - 1)
StartsWithAt(s, sub, i) ==
    /\ i >= 1
    /\ i + Len(sub) - 1 <= Len(s)
    /\ SubSeq(s, i, i + Len(sub) - 1) = sub

\* s.startsWith(sub)
StartsWith(s, sub) == StartsWithAt(s, sub, 1)

\* s.endsWith(sub)
EndsWith(s, sub) == StartsWithAt(s, sub, Len(s) - Len(sub) + 1)

\* s.includes(sub)
Includes(s, sub) == \E i \in 1..(Len(s) - Len(sub) + 1) : StartsWithAt(s, sub, i)

\* s.indexOf(sub) + 1: the 1-based position of the first occurrence, 0 if none
IndexOf(s, sub) ==
    IF Includes(s, sub)
    THEN CHOOSE i \in 1..(Len(s) - Len(sub) + 1) :
            /\ StartsWithAt(s, sub, i)
            /\ \A j \in 1..(i - 1) : ~StartsWithAt(s, sub, j)
    ELSE 0

\* s.split(sep) for a non-empty separator whose first occurrence is at i
RECURSIVE SplitAt(_, _, _)
SplitAt(s, sep, i) ==
    IF i = 0
    THEN <<s>>
    ELSE <<SubSeq(s, 1, i - 1)>>
         \o SplitAt(SubSeq(s, i + Len(sep), Len(s)), sep,
                    IndexOf(SubSeq(s, i + Len(sep), Len(s)), sep))

\* s.split(sep) for a non-empty separator
Split(s, sep) == SplitAt(s, sep, IndexOf(s, sep))

\* parts.join(sep)
RECURSIVE Join(_, _)
Join(parts, sep) ==
    IF Len(parts) = 0 THEN ""
    ELSE IF Len(parts) = 1 THEN parts[1]
    ELSE parts[1] \o sep \o Join(Tail(parts), sep)

LowerLetters == "abcdefghijklmnopqrstuvwxyz"

UpperLetters == "ABCDEFGHIJKLMNOPQRSTUVWXYZ"

Digits == "0123456789"

\* one character through String.prototype.toUpperCase
UpperChar(c) ==
    LET i == IndexOf(LowerLetters, c)
    IN  IF i = 0 THEN c ELSE CharAt(UpperLetters, i)

\* one character through String.prototype.toLowerCase
LowerChar(c) ==
    LET i == IndexOf(UpperLetters, c)
    IN  IF i = 0 THEN c ELSE CharAt(LowerLetters, i)

\* s.toUpperCase()
RECURSIVE ToUpperCase(_)
ToUpperCase(s) ==
    IF Len(s) = 0 THEN ""
    ELSE UpperChar(CharAt(s, 1)) \o ToUpperCase(SubSeq(s, 2, Len(s)))

\* s.toLowerCase()
RECURSIVE ToLowerCase(_)
ToLowerCase(s) ==
    IF Len(s) = 0 THEN ""
    ELSE LowerChar(CharAt(s, 1)) \o ToLowerCase(SubSeq(s, 2, Len(s)))

(***************************************************************************)
(* new URL(url), for the inputs of this model: "scheme://host[/path][?q]"  *)
(* with scheme http or https and a non-empty lower-case ASCII host parses; *)
(* every other string makes the constructor throw.                         *)
(***************************************************************************)

ParseFailure == [ok |-> FALSE, protocol |-> "", hostname |-> "", pathname |-> "", search |-> ""]

\* s cut at position i of the first sep (i = 0: there is none)
CutAt(s, sep, i) ==
    IF i = 0
    THEN [found |-> FALSE, before |-> s, after |-> ""]
    ELSE [found |-> TRUE, before |-> SubSeq(s, 1, i - 1),
          after |-> SubSeq(s, i + Len(sep), Len(s))]

\* s cut at its first sep
Cut(s, sep) == CutAt(s, sep, IndexOf(s, sep))

\* the URL object from the scheme, the authority with the path, and the query
UrlObject(scheme, hostPath, query) ==
    IF scheme.before \notin {"http", "https"} \/ Len(hostPath.before) = 0
    THEN ParseFailure
    ELSE [ok |-> TRUE,
          protocol |-> scheme.before \o ":",
          hostname |-> hostPath.before,
          pathname |-> "/" \o hostPath.after,
          search |-> IF query.after = "" THEN "" ELSE "?" \o query.after]

UrlAfterScheme(scheme, query) == UrlObject(scheme, Cut(query.before, "/"), query)

UrlFromScheme(scheme) ==
    IF scheme.found THEN UrlAfterScheme(scheme, Cut(scheme.after, "?")) ELSE ParseFailure

\* new URL(url)
NewURL(url) == UrlFromScheme(Cut(url, "://"))

secondLevelDomains == {"co", "com", "org", "net", "gov", "edu"}

\* an extraction that always returns the last two labels, which C27 must
\* tell from the code's
DomainOfParts_LastTwo(hostname, parts, n) ==
    IF n <= 2 THEN hostname
    ELSE parts[n - 1] \o "." \o parts[n]

\* the return of extractDomain for a hostname and its labels
DomainOfParts(hostname, parts, n) ==
    IF n <= 2 THEN hostname
    ELSE IF parts[n - 1] \in secondLevelDomains
         THEN parts[n - 2] \o "." \o parts[n - 1] \o "." \o parts[n]
    ELSE parts[n - 1] \o "." \o parts[n]

DomainOfHost(hostname, parts) == DomainOfParts(hostname, parts, Len(parts))

DomainOfUrl(urlObj) ==
    IF urlObj.ok
    THEN DomainOfHost(urlObj.hostname, Split(urlObj.hostname, "."))
    ELSE ""

\* extractDomain(url)
extractDomain(url) == DomainOfUrl(NewURL(url))

(***************************************************************************)
(* JavaScript values that may or may not be numbers (the remote            *)
(* risk_score and the threatScore built from it): a number n is JsNum(n),  *)
(* a string that does not convert to a number is JsText(s), and a missing  *)
(* property is JsUndefined.                                                *)
(***************************************************************************)

JsNum(n) == [type |-> "number", num |-> n, str |-> ""]

JsText(t) == [type |-> "string", num |-> 0, str |-> t]

JsUndefined == [type |-> "undefined", num |-> 0, str |-> ""]

\* v <= k for a number k: a comparison with NaN is false
JsLessEq(v, k) == v.type = "number" /\ v.num <= k

\* v > k for a number k: a comparison with NaN is false
JsGreater(v, k) == v.type = "number" /\ v.num > k

\* v || d: undefined, 0 and "" are falsy
JsOr(v, d) ==
    IF \/ v.type = "undefined"
       \/ (v.type = "number" /\ v.num = 0)
       \/ (v.type = "string" /\ v.str = "")
    THEN d ELSE v

(***************************************************************************)
(* Result classifier and result construction                               *)
(***************************************************************************)

\* THREAT_LEVELS, in property order
THREAT_LEVELS ==
    << [key |-> "SAFE",       name |-> "Safe",       color |-> "#4CAF50", score |-> <<0, 25>>],
       [key |-> "SUSPICIOUS", name |-> "Suspicious", color |-> "#FFC107", score |-> <<26, 50>>],
       [key |-> "HIGH_RISK",  name |-> "High Risk",  color |-> "#F44336", score |-> <<51, 75>>],
       [key |-> "PHISHING",   name |-> "Phishing",   color |-> "#F44336", score |-> <<76, 100>>] >>

Categories == {"SAFE", "SUSPICIOUS", "HIGH_RISK", "PHISHING"}

\* getCategoryColor(category): the first level whose upper-cased display name
\* equals the upper-cased category, green when there is none
getCategoryColor(category) ==
    LET hits == {i \in 1..Len(THREAT_LEVELS) :
                    ToUpperCase(THREAT_LEVELS[i].name) = ToUpperCase(category)}
    IN  IF hits = {} THEN "#4CAF50"
        ELSE THREAT_LEVELS[CHOOSE i \in hits : \A j \in hits : i <= j].color

\* createAnalysisResult(url, score, explanation, category) at time ts
createAnalysisResult(url, score, explanation, category, ts) ==
    [url |-> url, threatScore |-> score, explanation |-> explanation,
     category |-> category, color |-> getCategoryColor(category), timestamp |-> ts]

\* the chain of performHeuristicAnalysis with its first test a strict one,
\* which C10 must tell from the code's
HeuristicCategory_Open25(threatScore) ==
    IF threatScore.type = "number" /\ threatScore.num < 25 THEN "SAFE"
    ELSE IF JsLessEq(threatScore, 50) THEN "SUSPICIOUS"
    ELSE IF JsLessEq(threatScore, 75) THEN "HIGH_RISK"
    ELSE "PHISHING"

\* the category chain of performHeuristicAnalysis
HeuristicCategory(threatScore) ==
    IF JsLessEq(threatScore, 25) THEN "SAFE"
    ELSE IF JsLessEq(threatScore, 50) THEN "SUSPICIOUS"
    ELSE IF JsLessEq(threatScore, 75) THEN "HIGH_RISK"
    ELSE "PHISHING"

\* the chain of performLlmAnalysis with its last test a strict one, which
\* C8 must tell from the code's
LlmCategory_Open75(threatScore) ==
    IF JsLessEq(threatScore, 25) THEN "SAFE"
    ELSE IF JsLessEq(threatScore, 50) THEN "SUSPICIOUS"
    ELSE IF threatScore.type = "number" /\ threatScore.num < 75 THEN "HIGH_RISK"
    ELSE "PHISHING"

\* the category chain of performLlmAnalysis
LlmCategory(threatScore) ==
    IF JsLessEq(threatScore, 25) THEN "SAFE"
    ELSE IF JsLessEq(threatScore, 50) THEN "SUSPICIOUS"
    ELSE IF JsLessEq(threatScore, 75) THEN "HIGH_RISK"
    ELSE "PHISHING"

(***************************************************************************)
(* URL feature extractor                                                   *)
(***************************************************************************)

\* Characters standing for code points outside ASCII, which a TLA+ string
\* cannot hold: "~" is a Cyrillic letter, "^" a Latin Extended letter
\* (U+00A0..U+024F) and "|" any other non-ASCII code point.
CyrillicChars == "~"

LatinExtendedChars == "^"

OtherNonAsciiChars == "|"

\* /[^\x00-\x7F]/.test(s)
HasNonAscii(s) ==
    \E i \in 1..Len(s) :
        Includes(CyrillicChars \o LatinExtendedChars \o OtherNonAsciiChars, CharAt(s, i))

\* /[a-zA-Z0-9]/.test(c) for one character
IsAlphaNum(c) == Includes(LowerLetters \o UpperLetters \o Digits, c)

\* the length of s with every match of /[a-zA-Z0-9]/g removed
CountNonAlphaNum(s) == Cardinality({i \in 1..Len(s) : ~IsAlphaNum(CharAt(s, i))})

commonBrands ==
    << "google", "apple", "amazon", "microsoft", "facebook", "instagram",
       "paypal", "netflix", "gmail", "yahoo", "linkedin", "twitter",
       "dropbox", "spotify", "chase", "wellsfargo", "bankofamerica",
       "amex", "visa", "mastercard", "verizon", "att", "tmobile" >>

\* checkForCommonBrands(hostname)
checkForCommonBrands(hostname) ==
    LET lower == ToLowerCase(hostname)
        Found(brand) == Includes(lower, brand)
    IN  SelectSeq(commonBrands, Found)

\* the return of parseUrl(url), urlObj being new URL(url)
UrlData(url, urlObj) ==
    IF urlObj.ok
    THEN [fullUrl |-> url,
          protocol |-> urlObj.protocol,
          hostname |-> urlObj.hostname,
          domain |-> extractDomain(url),
          path |-> urlObj.pathname,
          query |-> urlObj.search,
          hasSubdomains |-> Len(Split(urlObj.hostname, ".")) > 2,
          numSpecialChars |-> CountNonAlphaNum(urlObj.hostname \o urlObj.pathname),
          urlLength |-> Len(url),
          isPunycode |-> Includes(urlObj.hostname, "xn--"),
          hasUnicodeChars |-> HasNonAscii(urlObj.hostname),
          containsCommonBrands |-> checkForCommonBrands(urlObj.hostname)]
    ELSE [fullUrl |-> url,
          protocol |-> "",
          hostname |-> "",
          domain |-> "",
          path |-> "",
          query |-> "",
          hasSubdomains |-> FALSE,
          numSpecialChars |-> 0,
          urlLength |-> Len(url),
          isPunycode |-> FALSE,
          hasUnicodeChars |-> FALSE,
          containsCommonBrands |-> <<>>]

\* parseUrl(url)
parseUrl(url) == UrlData(url, NewURL(url))

(***************************************************************************)
(* Brand-similarity detector                                               *)
(***************************************************************************)

\* a row in which a substitution costs 2, which C33 must tell from the
\* code's
RECURSIVE FillRow_Substitution2(_, _, _, _, _)
FillRow_Substitution2(prev, cur, i, a, b) ==
    IF Len(cur) = Len(a) + 1 THEN cur
    ELSE LET j == Len(cur)
             cell == IF CharAt(b, i) = CharAt(a, j)
                     THEN prev[j]
                     ELSE Min2(prev[j] + 2, Min2(cur[j] + 1, prev[j + 1] + 1))
         IN  FillRow_Substitution2(prev, Append(cur, cell), i, a, b)

\* one row of the matrix of levenshteinDistance: row i from row i - 1
\* (prev[j + 1] is matrix[i - 1][j], cur[j + 1] is matrix[i][j])
RECURSIVE FillRow(_, _, _, _, _)
FillRow(prev, cur, i, a, b) ==
    IF Len(cur) = Len(a) + 1 THEN cur
    ELSE LET j == Len(cur)
             cell == IF CharAt(b, i) = CharAt(a, j)
                     THEN prev[j]
                     ELSE Min2(prev[j] + 1, Min2(cur[j] + 1, prev[j + 1] + 1))
         IN  FillRow(prev, Append(cur, cell), i, a, b)

RECURSIVE FillMatrix(_, _, _, _)
FillMatrix(prev, i, a, b) ==
    IF i > Len(b) THEN prev
    ELSE FillMatrix(FillRow(prev, <<i>>, i, a, b), i + 1, a, b)

\* levenshteinDistance(a, b)
levenshteinDistance(a, b) ==
    IF Len(a) = 0 THEN Len(b)
    ELSE IF Len(b) = 0 THEN Len(a)
    ELSE FillMatrix([j \in 1..(Len(a) + 1) |-> j - 1], 1, a, b)[Len(a) + 1]

\* a score that also counts a similarity of exactly 0.7, which C31 must
\* tell from the code's
BrandScore_From07(domain, brand) ==
    LET distance == levenshteinDistance(ToLowerCase(domain), ToLowerCase(brand))
        m == Max2(Len(domain), Len(brand))
    IN  IF Len(brand) < 4 THEN 0
        ELSE IF 10 * distance <= 3 * m /\ distance > 0
             THEN (50 * (m - distance)) \div m
        ELSE 0

\* the score one brand contributes in checkBrandSimilarity: with
\* similarity = 1 - distance / m, similarity > 0.7 is 10 * distance < 3 * m,
\* similarity < 1 is distance > 0, and floor(similarity * 50) is
\* (50 * (m - distance)) \div m
BrandScore(domain, brand) ==
    LET distance == levenshteinDistance(ToLowerCase(domain), ToLowerCase(brand))
        m == Max2(Len(domain), Len(brand))
    IN  IF Len(brand) < 4 THEN 0
        ELSE IF 10 * distance < 3 * m /\ distance > 0
             THEN (50 * (m - distance)) \div m
        ELSE 0

RECURSIVE MaxBrandScore(_, _, _)
MaxBrandScore(domain, brands, maxScore) ==
    IF Len(brands) = 0 THEN maxScore
    ELSE MaxBrandScore(domain, Tail(brands), Max2(maxScore, BrandScore(domain, Head(brands))))

\* checkBrandSimilarity(domain, brands)
checkBrandSimilarity(domain, brands) ==
    IF Len(domain) = 0 \/ Len(brands) = 0 THEN 0
    ELSE MaxBrandScore(domain, brands, 0)

(***************************************************************************)
(* Heuristic risk scorer                                                   *)
(***************************************************************************)

\* /^\d+$/.test(s)
AllDigits(s) == Len(s) > 0 /\ \A i \in 1..Len(s) : Includes(Digits, CharAt(s, i))

\* /^\d+\.\d+\.\d+\.\d+$/.test(hostname)
IsIPv4Literal(hostname) ==
    LET parts == Split(hostname, ".")
    IN  Len(parts) = 4 /\ \A i \in 1..4 : AllDigits(parts[i])

\* the test of hostname against the class of Cyrillic letters and U+00A0..U+024F
HasHomographChars(hostname) ==
    \E i \in 1..Len(hostname) :
        Includes(CyrillicChars \o LatinExtendedChars, CharAt(hostname, i))

\* (hostname.match(/\./g) || []).length
CountDots(hostname) == Cardinality({i \in 1..Len(hostname) : CharAt(hostname, i) = "."})

suspiciousTLDs == {".tk", ".top", ".xyz", ".gq", ".ml", ".ga", ".cf"}

suspiciousKeywords ==
    {"login", "secure", "account", "update", "verify", "password", "auth", "signin", "confirm"}

\* the checks of performHeuristicAnalysis in source order, each with whether
\* it triggers, the points it adds and the reason it pushes
HeuristicChecks(urlData) ==
    LET brands == urlData.containsCommonBrands
        hasBrands == Len(brands) > 0
        brandSimilarityScore ==
            IF hasBrands THEN checkBrandSimilarity(urlData.domain, brands) ELSE 0
    IN  << [hit |-> urlData.protocol # "https:", points |-> 15,
            reason |-> "Not using HTTPS"],
           [hit |-> urlData.isPunycode, points |-> 50,
            reason |-> "Uses Punycode (potential IDN homograph attack)"],
           [hit |-> urlData.hasUnicodeChars, points |-> 45,
            reason |-> "Contains non-standard Unicode characters"],
           [hit |-> urlData.urlLength > 100, points |-> 15,
            reason |-> "Unusually long URL"],
           [hit |-> urlData.numSpecialChars > 15, points |-> 20,
            reason |-> "Excessive special characters"],
           [hit |-> IsIPv4Literal(urlData.hostname), points |-> 30,
            reason |-> "IP address used as hostname"],
           [hit |-> \E tld \in suspiciousTLDs : EndsWith(urlData.hostname, tld), points |-> 20,
            reason |-> "Suspicious top-level domain"],
           [hit |-> /\ hasBrands
                    /\ \E k \in 1..Len(brands) :
                          /\ Includes(urlData.hostname, brands[k])
                          /\ ~Includes(urlData.domain, brands[k]),
            points |-> 40,
            reason |-> "Brand name in subdomain but not main domain"],
           [hit |-> hasBrands /\ brandSimilarityScore > 0, points |-> brandSimilarityScore,
            reason |-> "Domain similar to known brand (potential typosquatting)"],
           [hit |-> HasHomographChars(urlData.hostname), points |-> 45,
            reason |-> "Potential homograph attack (non-standard characters)"],
           [hit |-> CountDots(urlData.hostname) > 3, points |-> 15,
            reason |-> "Excessive number of subdomains"],
           [hit |-> \E keyword \in suspiciousKeywords :
                        Includes(ToLowerCase(urlData.fullUrl), keyword),
            points |-> 15,
            reason |-> "Contains sensitive keywords often used in phishing"] >>

IsHit(check) == check.hit

\* the checks that trigger, in source order
TriggeredChecks(urlData) == SelectSeq(HeuristicChecks(urlData), IsHit)

RECURSIVE SumPoints(_)
SumPoints(checks) ==
    IF Len(checks) = 0 THEN 0 ELSE Head(checks).points + SumPoints(Tail(checks))

\* a score capped at 100, which C26 must tell from the code's
HeuristicScore_Capped(urlData) == Min2(100, SumPoints(TriggeredChecks(urlData)))

\* threatScore of performHeuristicAnalysis: the sum of the triggered points
HeuristicScore(urlData) == SumPoints(TriggeredChecks(urlData))

\* reasons that are not cut to three, which C30 must tell from the code's
HeuristicReasons_All(urlData) ==
    LET hits == TriggeredChecks(urlData)
    IN  [k \in 1..Len(hits) |-> hits[k].reason]

\* reasons of performHeuristicAnalysis after the slice(0, 3)
HeuristicReasons(urlData) ==
    LET hits == TriggeredChecks(urlData)
        kept == IF Len(hits) > 3 THEN SubSeq(hits, 1, 3) ELSE hits
    IN  [k \in 1..Len(kept) |-> kept[k].reason]

\* performHeuristicAnalysis(urlData) at time ts
performHeuristicAnalysis(urlData, ts) ==
    LET threatScore == JsNum(HeuristicScore(urlData))
    IN  createAnalysisResult(urlData.fullUrl, threatScore,
                             Join(HeuristicReasons(urlData), ". "),
                             HeuristicCategory(threatScore), ts)

(***************************************************************************)
(* Bounds and input sets of the model                                      *)
(***************************************************************************)

\* readings of the clock (new Date()) in one run: every reading ticks it
MaxTime == 2

\* request.url missing from an analyzeUrl message
UndefinedUrl == "<undefined>"

\* the URLs evaluated: two on one registrable domain, one whose heuristic
\* score exceeds 100
Urls ==
    { "https://www.example.com/",
      "http://example.com/login",
      "http://paypal.xn--pypal-4ve.tk/login" }

\* the domains a settings update puts on a list
ListDomains == {"example.com"}

FieldNames ==
    { "enableRealTimeMonitoring", "showNotifications", "storeHistory",
      "whitelistedDomains", "blacklistedDomains", "deepseekApiKey", "openaiApiKey" }

\* let userSettings = {...}
DefaultSettings ==
    [enableRealTimeMonitoring |-> TRUE,
     showNotifications |-> TRUE,
     storeHistory |-> FALSE,
     whitelistedDomains |-> {},
     blacklistedDomains |-> {},
     deepseekApiKey |-> "",
     openaiApiKey |-> ""]

\* request.settings of an updateSettings message: the properties in
\* `fields` are defined and have the value `values` gives them
Partial(fields, values) == [fields |-> fields, values |-> values]

\* updateSettings requests with one defined property each
ListUpdates ==
    {Partial({"whitelistedDomains"}, [DefaultSettings EXCEPT !.whitelistedDomains = d]) :
        d \in SUBSET ListDomains}
    \cup
    {Partial({"blacklistedDomains"}, [DefaultSettings EXCEPT !.blacklistedDomains = d]) :
        d \in SUBSET ListDomains}

KeyUpdates ==
    {Partial({"deepseekApiKey"}, [DefaultSettings EXCEPT !.deepseekApiKey = k]) :
        k \in {"", "ds-key"}}

StoreHistoryUpdates ==
    {Partial({"storeHistory"}, [DefaultSettings EXCEPT !.storeHistory = b]) :
        b \in BOOLEAN}

\* what the remote call of performLlmAnalysis can end in: fetch rejects,
\* response.ok is false, the content holds no {...}, or it holds a JSON
\* object with these risk_score and evidence properties
LlmOutcome(kind, risk_score, evidenceKind, evidence) ==
    [kind |-> kind, risk_score |-> risk_score,
     evidenceKind |-> evidenceKind, evidence |-> evidence]

LlmOutcomes ==
    { LlmOutcome("network_error", JsUndefined, "missing", <<>>),
      LlmOutcome("http_error", JsUndefined, "missing", <<>>),
      LlmOutcome("no_json", JsUndefined, "missing", <<>>),
      LlmOutcome("json", JsNum(75), "string", <<>>),
      LlmOutcome("json", JsNum(75), "array", <<"Odd host", "Login form">>),
      LlmOutcome("json", JsText("high"), "array", <<"Known scam">>) }

\* an adapter that answers a non-success status with a result of its own
\* instead of the heuristic one, which C11 must tell from the code's
performLlmAnalysis_HttpErrorDefault(urlData, outcome, ts) ==
    IF outcome.kind = "http_error"
    THEN createAnalysisResult(urlData.fullUrl, JsNum(0), "API request failed", "SAFE", ts)
    ELSE IF outcome.kind # "json" \/ outcome.evidenceKind = "string"
    THEN performHeuristicAnalysis(urlData, ts)
    ELSE LET threatScore == JsOr(outcome.risk_score, JsNum(0))
             explanation == IF outcome.evidenceKind = "array"
                            THEN Join(outcome.evidence, ". ")
                            ELSE "No specific threats detected"
         IN  createAnalysisResult(urlData.fullUrl, threatScore, explanation,
                                  LlmCategory(threatScore), ts)

\* performLlmAnalysis from the resolution of fetch to its return
performLlmAnalysis(urlData, outcome, ts) ==
    IF outcome.kind # "json" \/ outcome.evidenceKind = "string"
    THEN performHeuristicAnalysis(urlData, ts)
    ELSE LET threatScore == JsOr(outcome.risk_score, JsNum(0))
             explanation == IF outcome.evidenceKind = "array"
                            THEN Join(outcome.evidence, ". ")
                            ELSE "No specific threats detected"
         IN  createAnalysisResult(urlData.fullUrl, threatScore, explanation,
                                  LlmCategory(threatScore), ts)

(***************************************************************************)
(* Online search: performOnlineSearch and parseTextResponse                *)
(***************************************************************************)

JsBool(b) == [type |-> "boolean", num |-> IF b THEN 1 ELSE 0, str |-> ""]

\* the number NaN
JsNaN == [type |-> "NaN", num |-> 0, str |-> ""]

\* Boolean(v)
JsTruthy(v) ==
    \/ (v.type = "number" /\ v.num # 0)
    \/ (v.type = "string" /\ v.str # "")
    \/ (v.type = "boolean" /\ v.num = 1)

\* Math.min(100, Math.max(0, v)): a string that is no number gives NaN
ClampConfidence(v) ==
    IF v.type = "number" THEN JsNum(Min2(100, Max2(0, v.num))) ELSE JsNaN

\* array.slice(0, n)
Slice(array, n) == SubSeq(array, 1, Min2(n, Len(array)))

\* the object performOnlineSearch resolves to
SearchResult(confidence, isLegitimate, summary, keyFindings, recommendations) ==
    [confidence |-> confidence, isLegitimate |-> isLegitimate, summary |-> summary,
     keyFindings |-> keyFindings, recommendations |-> recommendations]

\* const historyEntry = {...} of performOnlineSearch for the result it
\* returns; label is "Online Search", "Online Search Failed" or
\* "Online Search Error" and failed tells the two last from the first
SearchHistoryEntry(url, label, failed, result, ts) ==
    [url |-> url,
     threatScore |-> IF ~failed /\ result.isLegitimate THEN JsNum(10) ELSE JsNum(75),
     explanation |-> label \o ": " \o result.summary,
     category |-> IF ~failed /\ result.isLegitimate THEN "SAFE" ELSE "HIGH_RISK",
     color |-> IF ~failed /\ result.isLegitimate THEN "#4CAF50" ELSE "#F44336",
     timestamp |-> ts,
     searchType |-> "online_search",
     confidence |-> result.confidence,
     isLegitimate |-> result.isLegitimate,
     keyFindings |-> result.keyFindings,
     recommendations |-> result.recommendations]

\* const errorResult = {...} in the outer catch block, for error.message
SearchErrorResult(message) ==
    SearchResult(JsNum(0), FALSE,
                 "Failed to perform online search: " \o message
                    \o ". Please try again or verify the website manually.",
                 <<"Search failed", message>>,
                 <<"Try the search again", "Verify the website manually",
                   "Check for HTTPS and security certificates">>)

\* a fallback result that calls the site legitimate, which C25 must tell
\* from the code's
SearchFallbackResult_Legitimate ==
    SearchResult(JsNum(50), TRUE,
                 "Unable to complete online search analysis. Please exercise caution and verify the website through other means.",
                 <<"Analysis could not be completed">>,
                 <<"Verify the website through other sources", "Check for HTTPS certificate",
                   "Look for contact information and company details">>)

\* const fallbackResult = {...} in the inner catch block
SearchFallbackResult ==
    SearchResult(JsNum(50), FALSE,
                 "Unable to complete online search analysis. Please exercise caution and verify the website through other means.",
                 <<"Analysis could not be completed">>,
                 <<"Verify the website through other sources", "Check for HTTPS certificate",
                   "Look for contact information and company details">>)

\* const searchAnalysisResult = {...}: the parsed searchResult validated
SearchAnalysisResult(searchResult) ==
    SearchResult(ClampConfidence(JsOr(searchResult.confidence, JsNum(50))),
                 JsTruthy(searchResult.isLegitimate),
                 IF searchResult.summary = ""
                 THEN "Analysis completed but no specific findings available."
                 ELSE searchResult.summary,
                 IF searchResult.keyFindingsIsArray
                 THEN Slice(searchResult.keyFindings, 5) ELSE << >>,
                 IF searchResult.recommendationsIsArray
                 THEN Slice(searchResult.recommendations, 3) ELSE << >>)

\* a parsed answer of the model: the properties performOnlineSearch reads
ParsedSearch(confidence, isLegitimate, summary, keyFindingsIsArray, keyFindings, recommendationsIsArray, recommendations) ==
    [confidence |-> confidence, isLegitimate |-> isLegitimate, summary |-> summary,
     keyFindingsIsArray |-> keyFindingsIsArray, keyFindings |-> keyFindings,
     recommendationsIsArray |-> recommendationsIsArray,
     recommendations |-> recommendations]

legitimateKeywords ==
    {"legitimate", "safe", "trusted", "official", "verified", "authentic", "reputable",
     "established", "well-known"}

textSuspiciousKeywords ==
    {"suspicious", "phishing", "scam", "fraudulent", "malicious", "dangerous", "fake",
     "typosquatting", "deceptive"}

\* words.filter(word => text.includes(word)).length
CountIncluded(text, words) == Cardinality({word \in words : Includes(text, word)})

\* s.trim(), for strings whose only white space is the space
RECURSIVE TrimStart(_)
TrimStart(s) ==
    IF Len(s) > 0 /\ CharAt(s, 1) = " " THEN TrimStart(SubSeq(s, 2, Len(s))) ELSE s

RECURSIVE TrimEnd(_)
TrimEnd(s) ==
    IF Len(s) > 0 /\ CharAt(s, Len(s)) = " " THEN TrimEnd(SubSeq(s, 1, Len(s) - 1)) ELSE s

Trim(s) == TrimEnd(TrimStart(s))

\* s with every ! and ? turned into a full stop
RECURSIVE WithFullStops(_)
WithFullStops(s) ==
    IF Len(s) = 0 THEN ""
    ELSE (IF CharAt(s, 1) \in {"!", "?"} THEN "." ELSE CharAt(s, 1))
         \o WithFullStops(SubSeq(s, 2, Len(s)))

\* parts.map(s => s.trim())
RECURSIVE TrimAll(_)
TrimAll(parts) ==
    IF Len(parts) = 0 THEN << >> ELSE <<Trim(Head(parts))>> \o TrimAll(Tail(parts))

IsFinding(sentence) == Len(sentence) > 20 /\ Len(sentence) < 150

\* textResponse.split(/[.!?]+/).map(trim).filter(...).slice(0, 3): the empty
\* pieces a split at every single mark adds are dropped by the filter
FindingSentences(textResponse) ==
    Slice(SelectSeq(TrimAll(Split(WithFullStops(textResponse), ".")), IsFinding), 3)

\* the summary parseTextResponse builds from the trimmed response
TextSummary(summary, domain, isLegitimate) ==
    IF Len(summary) < 50
    THEN "Based on analysis of " \o domain \o ", the website appears to be "
         \o (IF isLegitimate THEN "legitimate" ELSE "potentially suspicious")
         \o ". " \o summary
    ELSE summary

\* parseTextResponse from the two keyword counts on
ParsedText(textResponse, domain, legitimateScore, suspiciousScore, isLegitimate, confidence, sentences) ==
    ParsedSearch(
        JsNum(confidence),
        JsBool(isLegitimate),
        TextSummary(IF Len(Trim(textResponse)) > 300
                    THEN SubSeq(Trim(textResponse), 1, 297) \o "..."
                    ELSE Trim(textResponse),
                    domain, isLegitimate),
        TRUE,
        IF Len(sentences) > 0 THEN sentences
        ELSE << "Domain analysis indicates "
                  \o (IF isLegitimate THEN "legitimate" ELSE "suspicious")
                  \o " characteristics",
                "Confidence level: " \o ToString(confidence) \o "%",
                "Keyword analysis: " \o ToString(legitimateScore) \o " positive vs "
                  \o ToString(suspiciousScore) \o " negative indicators" >>,
        TRUE,
        IF isLegitimate
        THEN << "Website appears to be legitimate based on analysis",
                "Verify through official channels for sensitive activities",
                "Check for secure HTTPS connection" >>
        ELSE << "Exercise caution when using this website",
                "Verify authenticity through official sources",
                "Avoid entering sensitive personal information" >>)

\* |a - b|
AbsDiff(a, b) == IF a >= b THEN a - b ELSE b - a

\* a majority that a tie decides for the site, which C35 must tell from
\* the code's
ParseTextScores_TieLegitimate(textResponse, domain, legitimateScore, suspiciousScore) ==
    ParsedText(textResponse, domain, legitimateScore, suspiciousScore,
               legitimateScore >= suspiciousScore,
               Min2(90, Max2(30, (AbsDiff(legitimateScore, suspiciousScore) + 1) * 20)),
               FindingSentences(textResponse))

ParseTextScores(textResponse, domain, legitimateScore, suspiciousScore) ==
    ParsedText(textResponse, domain, legitimateScore, suspiciousScore,
               legitimateScore > suspiciousScore,
               Min2(90, Max2(30, (AbsDiff(legitimateScore, suspiciousScore) + 1) * 20)),
               FindingSentences(textResponse))

\* parseTextResponse(textResponse, domain)
parseTextResponse(textResponse, domain) ==
    ParseTextScores(textResponse, domain,
                    CountIncluded(ToLowerCase(textResponse), legitimateKeywords),
                    CountIncluded(ToLowerCase(textResponse), textSuspiciousKeywords))

\* what the remote call of performOnlineSearch can end in: fetch rejects
\* or response.ok is false (message is error.message), data has no
\* choices[0].message, the content is empty, it holds {...} that
\* JSON.parse rejects, it holds a JSON object with the properties of
\* parsed, or it is plain text without {...}
SearchOutcome(kind, message, content, parsed) ==
    [kind |-> kind, message |-> message, content |-> content, parsed |-> parsed]

NoParsed == ParsedSearch(JsUndefined, JsUndefined, "", FALSE, << >>, FALSE, << >>)

SearchOutcomes ==
    { SearchOutcome("network_error", "Failed to fetch", "", NoParsed),
      SearchOutcome("http_error", "OpenAI API request failed: 500 - server error", "",
                    NoParsed),
      SearchOutcome("bad_structure", "", "", NoParsed),
      SearchOutcome("empty_content", "", "", NoParsed),
      SearchOutcome("bad_json", "", "{confidence: 80}", NoParsed),
      SearchOutcome("json", "", "",
                    ParsedSearch(JsNum(80), JsBool(TRUE), "Long registered bank domain.",
                                 TRUE, <<"Registered in 1995">>, TRUE, <<"None">>)),
      SearchOutcome("json", "", "",
                    ParsedSearch(JsNum(0), JsBool(FALSE), "Reported as a scam.",
                                 TRUE, <<"Listed by PhishTank">>, FALSE, << >>)),
      SearchOutcome("text", "", "This looks like a phishing scam. Avoid it!", NoParsed) }

\* the throws of performOnlineSearch before its fetch, in source order; for
\* new URL(url) the message is the one Chrome gives
SearchStartError(openaiApiKey, urlParses) ==
    IF openaiApiKey = ""
    THEN "No OpenAI API key configured. Please add your API key in settings."
    ELSE IF ~StartsWith(openaiApiKey, "sk-")
    THEN "Invalid OpenAI API key format"
    ELSE IF ~urlParses
    THEN "Failed to construct 'URL': Invalid URL"
    ELSE ""

\* the catch block a remote call that ended in `outcome` leads
\* performOnlineSearch to, or "parsed" for none
SearchPath(outcome) ==
    IF outcome.kind \in {"network_error", "http_error"} THEN "error"
    ELSE IF outcome.kind \in {"bad_structure", "empty_content", "bad_json"} THEN "fallback"
    ELSE "parsed"

\* the label of the history entry written on a path
SearchLabel(path) ==
    IF path = "error" THEN "Online Search Error"
    ELSE IF path = "fallback" THEN "Online Search Failed"
    ELSE "Online Search"

\* performOnlineSearch from the resolution of fetch to its return value
performOnlineSearch(domain, outcome) ==
    IF SearchPath(outcome) = "error" THEN SearchErrorResult(outcome.message)
    ELSE IF SearchPath(outcome) = "fallback" THEN SearchFallbackResult
    ELSE IF outcome.kind = "json" THEN SearchAnalysisResult(outcome.parsed)
    ELSE SearchAnalysisResult(parseTextResponse(outcome.content, domain))

(***************************************************************************)
(* The pure functions above, tabulated once over the inputs of the model   *)
(* (a result is tabulated with timestamp 0 and stamped when it is built)   *)
(***************************************************************************)

DomainTable == [url \in Urls \cup {UndefinedUrl} |-> extractDomain(url)]

HeuristicTable == [url \in Urls |-> performHeuristicAnalysis(parseUrl(url), 0)]

LlmTable ==
    [url \in Urls |-> [outcome \in LlmOutcomes |-> performLlmAnalysis(parseUrl(url), outcome, 0)]]

ListResultTable ==
    [url \in Urls \cup {UndefinedUrl} |->
        [whitelist |-> createAnalysisResult(url, JsNum(0), "Domain is whitelisted by user",
                                            "SAFE", 0),
         blacklist |-> createAnalysisResult(url, JsNum(100), "Domain is blacklisted by user",
                                            "PHISHING", 0)]]

\* the URLs an onlineSearch message carries: those evaluated, and none
SearchUrls == Urls \cup {UndefinedUrl}

UrlParsesTable == [url \in SearchUrls |-> NewURL(url).ok]

SearchTable ==
    [url \in SearchUrls |->
        [outcome \in SearchOutcomes |-> performOnlineSearch(DomainTable[url], outcome)]]

\* a tabulated result as built at time ts
At(result, ts) == [result EXCEPT !.timestamp = ts]

(***************************************************************************)
(* State                                                                   *)
(***************************************************************************)

VARIABLES
    userSettings,    \* background.js: let userSettings
    storedSettings,  \* chrome.storage.local: urlguard_settings
    loadPending,     \* the startup storage.get: its callback has not run, what it was served
    analysisCache,   \* background.js: let analysisCache, a map from the cached URLs
    tasks,           \* the bag of evaluations suspended on fetch
    historyStore,    \* chrome.storage.local: urlguard_history, newest first
    historyGets,     \* storage.get calls of storeAnalysisInHistory whose callback has not run
    now,             \* the clock: the last reading of new Date()
    response,        \* what the last step sent back (sendResponse) or returned
    popup,           \* popup.js: its copy of the settings and the current tab
    probe            \* the input and output of a function applied on its own

vars == <<userSettings, storedSettings, loadPending, analysisCache, tasks,
          historyStore, historyGets, now, response, popup, probe>>

NoResponse == [op |-> "none"]

NoProbe == [fn |-> "none"]

PopupClosed == [open |-> FALSE]

NoStoredSettings == [present |-> FALSE, value |-> DefaultSettings]

\* settings an earlier run of the extension has stored
EarlierSettings ==
    [enableRealTimeMonitoring |-> FALSE,
     showNotifications |-> FALSE,
     storeHistory |-> TRUE,
     whitelistedDomains |-> {"example.com"},
     blacklistedDomains |-> {"example.org"},
     deepseekApiKey |-> "ds-key",
     openaiApiKey |-> "sk-key"]

\* urlguard_settings as an earlier run of the extension can have left it
StartupStores == {NoStoredSettings, [present |-> TRUE, value |-> EarlierSettings]}

\* the startup load has been served and its callback has run
LoadDone == [pending |-> FALSE, served |-> NoStoredSettings]

\* the state after the script has run top to bottom: the startup load is
\* issued and nothing else has happened
InitStartup ==
    /\ userSettings = DefaultSettings
    /\ storedSettings \in StartupStores
    /\ loadPending = [pending |-> TRUE, served |-> storedSettings]
    /\ analysisCache = << >>
    /\ tasks = EmptyBag
    /\ historyStore = << >>
    /\ historyGets = << >>
    /\ now = 0
    /\ response = NoResponse
    /\ popup = PopupClosed
    /\ probe = NoProbe

\* a fresh install once the callback of the startup load has run: nothing
\* was stored, so the settings are the defaults
Init ==
    /\ userSettings = DefaultSettings
    /\ storedSettings = NoStoredSettings
    /\ loadPending = LoadDone
    /\ analysisCache = << >>
    /\ tasks = EmptyBag
    /\ historyStore = << >>
    /\ historyGets = << >>
    /\ now = 0
    /\ response = NoResponse
    /\ popup = PopupClosed
    /\ probe = NoProbe

(***************************************************************************)
(* Settings: startup load and the updateSettings message                   *)
(***************************************************************************)

\* the callback of chrome.storage.local.get(['urlguard_settings']): the get
\* was made when the script ran, so it was served before any set made by a
\* handler since
StartupLoad ==
    /\ loadPending.pending
    /\ loadPending' = LoadDone
    /\ userSettings' =
         IF loadPending.served.present
         THEN LET settings == loadPending.served.value
              IN  [enableRealTimeMonitoring |-> settings.enableRealTimeMonitoring,
                   showNotifications |-> settings.showNotifications,
                   storeHistory |-> settings.storeHistory,
                   whitelistedDomains |-> settings.whitelistedDomains,
                   blacklistedDomains |-> settings.blacklistedDomains,
                   deepseekApiKey |-> settings.deepseekApiKey,
                   openaiApiKey |-> settings.openaiApiKey]
         ELSE userSettings
    /\ response' = NoResponse
    /\ UNCHANGED <<storedSettings, analysisCache, tasks, historyStore, historyGets,
                   now, popup, probe>>

\* a merge that takes a new list or key with ||, so that an empty list or
\* an empty key keeps the old value, which C18 must tell from the code's
MergeSettings_EmptyKeepsOld(old, newSettings) ==
    LET Pick(f) == IF f \in newSettings.fields THEN newSettings.values[f] ELSE old[f]
        PickOr(f, empty) ==
            IF f \in newSettings.fields /\ newSettings.values[f] # empty
            THEN newSettings.values[f] ELSE old[f]
    IN  [enableRealTimeMonitoring |-> Pick("enableRealTimeMonitoring"),
         showNotifications |-> Pick("showNotifications"),
         storeHistory |-> Pick("storeHistory"),
         whitelistedDomains |-> PickOr("whitelistedDomains", {}),
         blacklistedDomains |-> PickOr("blacklistedDomains", {}),
         deepseekApiKey |-> PickOr("deepseekApiKey", ""),
         openaiApiKey |-> PickOr("openaiApiKey", "")]

\* the merge of the updateSettings handler: a property of newSettings that
\* is defined replaces the old one (a list, empty or not, is truthy)
MergeSettings(old, newSettings) ==
    LET Pick(f) == IF f \in newSettings.fields THEN newSettings.values[f] ELSE old[f]
    IN  [enableRealTimeMonitoring |-> Pick("enableRealTimeMonitoring"),
         showNotifications |-> Pick("showNotifications"),
         storeHistory |-> Pick("storeHistory"),
         whitelistedDomains |-> Pick("whitelistedDomains"),
         blacklistedDomains |-> Pick("blacklistedDomains"),
         deepseekApiKey |-> Pick("deepseekApiKey"),
         openaiApiKey |-> Pick("openaiApiKey")]

\* a handler that stores the settings before it merges the request into
\* them, which C19 must tell from the code's
updateSettings_StoresOld(newSettings) ==
    /\ userSettings' = MergeSettings(userSettings, newSettings)
    /\ storedSettings' = [present |-> TRUE, value |-> userSettings]
    /\ response' = [op |-> "updateSettings", success |-> TRUE]
    /\ UNCHANGED <<loadPending, analysisCache, tasks, historyStore, historyGets, now>>

\* onMessage, request.action === "updateSettings"
updateSettings(newSettings) ==
    /\ userSettings' = MergeSettings(userSettings, newSettings)
    /\ storedSettings' = [present |-> TRUE, value |-> userSettings']
    /\ response' = [op |-> "updateSettings", success |-> TRUE]
    /\ UNCHANGED <<loadPending, analysisCache, tasks, historyStore, historyGets, now>>

\* an updateSettings message from any page of the extension
UpdateSettingsMessage(updates) ==
    \E newSettings \in updates :
        /\ updateSettings(newSettings)
        /\ UNCHANGED <<popup, probe>>

\* an updateSettings message, with the request it carried kept for
\* comparison with what the handler did
UpdateSettingsRecorded(updates) ==
    \E newSettings \in updates :
        /\ updateSettings(newSettings)
        /\ probe' = [fn |-> "updateSettings", settings |-> newSettings]
        /\ UNCHANGED popup

(***************************************************************************)
(* Override and cache policy: analyzeUrl                                    *)
(***************************************************************************)

\* program constant: the history log holds at most this many entries
HistoryLimit == 1000

\* the map m with key k set to v
Put(m, k, v) == [x \in (DOMAIN m) \cup {k} |-> IF x = k THEN v ELSE m[x]]

\* showWarningBanner(tabId, analysis) sends the banner: a tab is given and
\* showNotifications is on when it is called
showWarningBanner(hasTab) == hasTab /\ userSettings.showNotifications

\* what holds when analyzeUrl is invoked for url: its registrable domain
\* is on the whitelist, on the blacklist, the cache has an entry for it,
\* and the storeHistory and showNotifications settings in force
Seen(url) ==
    [whitelisted |-> DomainTable[url] \in userSettings.whitelistedDomains,
     blacklisted |-> DomainTable[url] \in userSettings.blacklistedDomains,
     cached |-> url \in DOMAIN analysisCache,
     storeHistory |-> userSettings.storeHistory,
     showNotifications |-> userSettings.showNotifications]

\* the value analyzeUrl resolves to, with the call it answers, what that
\* call saw when it was invoked and the step it ended on
Reply(url, hasTab, forceRefresh, seen, path, result, banner) ==
    [op |-> "analyzeUrl", url |-> url, hasTab |-> hasTab, forceRefresh |-> forceRefresh,
     seen |-> seen, path |-> path, result |-> result, banner |-> banner]

\* the steps with the blacklist tested before the whitelist, which C1 must
\* tell from the code's order
analyzeUrlStep_BlacklistFirst(url, forceRefresh) ==
    IF DomainTable[url] \in userSettings.blacklistedDomains THEN "blacklist"
    ELSE IF DomainTable[url] \in userSettings.whitelistedDomains THEN "whitelist"
    ELSE IF ~forceRefresh /\ url \in DOMAIN analysisCache THEN "cache"
    ELSE "fresh"

\* the steps with the cache tested before the blacklist, which C2 must tell
\* from the code's order
analyzeUrlStep_CacheFirst(url, forceRefresh) ==
    IF DomainTable[url] \in userSettings.whitelistedDomains THEN "whitelist"
    ELSE IF ~forceRefresh /\ url \in DOMAIN analysisCache THEN "cache"
    ELSE IF DomainTable[url] \in userSettings.blacklistedDomains THEN "blacklist"
    ELSE "fresh"

\* the step of analyzeUrl the call ends on or goes on from: the if
\* statements in source order
analyzeUrlStep(url, forceRefresh) ==
    IF DomainTable[url] \in userSettings.whitelistedDomains THEN "whitelist"
    ELSE IF DomainTable[url] \in userSettings.blacklistedDomains THEN "blacklist"
    ELSE IF ~forceRefresh /\ url \in DOMAIN analysisCache THEN "cache"
    ELSE "fresh"

\* a return that also caches the result it built, which C3 must tell from
\* the code's
ReturnResult_Cached(url, hasTab, forceRefresh, seen, path, result, banner) ==
    /\ response' = Reply(url, hasTab, forceRefresh, seen, path, result, banner)
    /\ analysisCache' = Put(analysisCache, url, result)
    /\ UNCHANGED <<tasks, historyGets>>

\* return of a result built on the spot: the whitelist and blacklist steps
\* and the catch block
ReturnResult(url, hasTab, forceRefresh, seen, path, result, banner) ==
    /\ response' = Reply(url, hasTab, forceRefresh, seen, path, result, banner)
    /\ UNCHANGED <<analysisCache, tasks, historyGets>>

\* a return of the cached result stamped with the present time, which C4
\* must tell from the code's
ReturnCached_Restamped(url, hasTab, forceRefresh, seen) ==
    /\ response' = Reply(url, hasTab, forceRefresh, seen, "cache",
                         At(analysisCache[url], now),
                         JsGreater(analysisCache[url].threatScore, 25)
                            /\ showWarningBanner(hasTab))
    /\ UNCHANGED <<analysisCache, tasks, historyGets, now>>

\* return analysisCache[url]
ReturnCached(url, hasTab, forceRefresh, seen) ==
    /\ response' = Reply(url, hasTab, forceRefresh, seen, "cache", analysisCache[url],
                         JsGreater(analysisCache[url].threatScore, 25)
                            /\ showWarningBanner(hasTab))
    /\ UNCHANGED <<analysisCache, tasks, historyGets, now>>

\* storeAnalysisInHistory(analysis): the storage.get is issued; the storage
\* area serves its calls in the order they are made, so the callback will
\* be given the log as it is now
storeAnalysisInHistory(analysis) ==
    historyGets' = Append(historyGets, [analysis |-> analysis, snapshot |-> historyStore])

\* the callback of storeAnalysisInHistory
HistoryCallback ==
    /\ Len(historyGets) > 0
    /\ LET get == Head(historyGets)
           history == get.snapshot
           popped == IF Len(history) >= HistoryLimit
                     THEN SubSeq(history, 1, Len(history) - 1)
                     ELSE history
       IN  historyStore' = <<get.analysis>> \o popped
    /\ historyGets' = Tail(historyGets)
    /\ response' = NoResponse
    /\ UNCHANGED <<userSettings, storedSettings, loadPending, analysisCache, tasks,
                   now, popup, probe>>

\* a completion that keys the cache by the registrable domain, which C5
\* must tell from the code's
FinishAnalysis_KeyedByDomain(url, hasTab, forceRefresh, seen, path, analysis) ==
    /\ analysisCache' = Put(analysisCache, DomainTable[url], analysis)
    /\ IF userSettings.storeHistory
       THEN storeAnalysisInHistory(analysis)
       ELSE UNCHANGED historyGets
    /\ response' = Reply(url, hasTab, forceRefresh, seen, path, analysis,
                         JsGreater(analysis.threatScore, 25) /\ showWarningBanner(hasTab))

\* a completion that leaves an entry the cache already holds as it is, so
\* that of two overlapping evaluations the first to finish wins, which C21
\* must tell from the code's
FinishAnalysis_FirstWriteWins(url, hasTab, forceRefresh, seen, path, analysis) ==
    /\ analysisCache' = IF url \in DOMAIN analysisCache THEN analysisCache
                        ELSE Put(analysisCache, url, analysis)
    /\ IF userSettings.storeHistory
       THEN storeAnalysisInHistory(analysis)
       ELSE UNCHANGED historyGets
    /\ response' = Reply(url, hasTab, forceRefresh, seen, path, analysis,
                         JsGreater(analysis.threatScore, 25) /\ showWarningBanner(hasTab))

\* analyzeUrl after performLlmAnalysis has resolved to `analysis`
FinishAnalysis(url, hasTab, forceRefresh, seen, path, analysis) ==
    /\ analysisCache' = Put(analysisCache, url, analysis)
    /\ IF userSettings.storeHistory
       THEN storeAnalysisInHistory(analysis)
       ELSE UNCHANGED historyGets
    /\ response' = Reply(url, hasTab, forceRefresh, seen, path, analysis,
                         JsGreater(analysis.threatScore, 25) /\ showWarningBanner(hasTab))

\* a test of the API key that never finds it missing, which C12 must tell
\* from the code's
NoApiKey_Never == FALSE

\* performLlmAnalysis: if (!userSettings.deepseekApiKey)
NoApiKey == userSettings.deepseekApiKey = ""

\* an evaluation suspended on fetch: the call and what it saw
Task(url, hasTab, forceRefresh, seen) ==
    [op |-> "analyzeUrl", url |-> url, hasTab |-> hasTab, forceRefresh |-> forceRefresh,
     seen |-> seen]

\* analyzeUrl from the step it takes, up to its return or its suspension on
\* fetch
analyzeUrlFrom(url, hasTab, forceRefresh, seen, step) ==
    IF step = "whitelist"
    THEN /\ now < MaxTime
         /\ now' = now + 1
         /\ ReturnResult(url, hasTab, forceRefresh, seen, "whitelist",
                         At(ListResultTable[url].whitelist, now'), FALSE)
    ELSE IF step = "blacklist"
    THEN /\ now < MaxTime
         /\ now' = now + 1
         /\ ReturnResult(url, hasTab, forceRefresh, seen, "blacklist",
                         At(ListResultTable[url].blacklist, now'), showWarningBanner(hasTab))
    ELSE IF step = "cache"
    THEN ReturnCached(url, hasTab, forceRefresh, seen)
    ELSE IF url = UndefinedUrl
    THEN \* parseUrl throws in its own catch block (url.length): the catch
         \* of analyzeUrl builds the result, which has no color
         /\ now < MaxTime
         /\ now' = now + 1
         /\ ReturnResult(url, hasTab, forceRefresh, seen, "error",
                         [url |-> url, threatScore |-> JsNum(0),
                          explanation |-> "Error analyzing URL", category |-> "SAFE",
                          timestamp |-> now'],
                         FALSE)
    ELSE IF NoApiKey
    THEN \* performLlmAnalysis returns the heuristic result without a fetch
         /\ now < MaxTime
         /\ now' = now + 1
         /\ FinishAnalysis(url, hasTab, forceRefresh, seen, "heuristic",
                           At(HeuristicTable[url], now'))
         /\ UNCHANGED tasks
    ELSE \* await fetch(API_ENDPOINT, ...)
         /\ now + BagCardinality(tasks) < MaxTime
         /\ tasks' = tasks (+) SetToBag({Task(url, hasTab, forceRefresh, seen)})
         /\ response' = NoResponse
         /\ UNCHANGED <<analysisCache, historyGets, now>>

\* analyzeUrl(url, tabId, forceRefresh)
analyzeUrl(url, hasTab, forceRefresh) ==
    analyzeUrlFrom(url, hasTab, forceRefresh, Seen(url), analyzeUrlStep(url, forceRefresh))

\* onMessage, request.action === "analyzeUrl": the popup has no sender.tab
AnalyzeUrlMessage(urls) ==
    \E url \in urls, forceRefresh \in BOOLEAN :
        /\ analyzeUrl(url, FALSE, forceRefresh)
        /\ UNCHANGED <<userSettings, storedSettings, loadPending, historyStore, popup, probe>>

\* the event a webNavigation.onCompleted listener was called with, and the
\* enableRealTimeMonitoring setting it found
NavigationEvent(url, mainFrame) ==
    [fn |-> "onCompleted", url |-> url, mainFrame |-> mainFrame,
     monitoring |-> userSettings.enableRealTimeMonitoring]

\* what the listener leaves when it returns without calling analyzeUrl
NavigationIgnored == [op |-> "onCompleted", analyzed |-> FALSE]

\* a listener that does not test details.frameId, which C23 must tell from
\* the code's
NavigationCompleted_AnyFrame(urls) ==
    \E url \in urls, mainFrame \in BOOLEAN :
        /\ probe' = NavigationEvent(url, mainFrame)
        /\ IF userSettings.enableRealTimeMonitoring
           THEN /\ analyzeUrl(url, TRUE, FALSE)
                /\ UNCHANGED <<userSettings, storedSettings, loadPending, historyStore, popup>>
           ELSE /\ response' = NavigationIgnored
                /\ UNCHANGED <<userSettings, storedSettings, loadPending, analysisCache, tasks,
                               historyStore, historyGets, now, popup>>

\* webNavigation.onCompleted: details.frameId === 0 is mainFrame, and the
\* tab of the navigation is passed to analyzeUrl
NavigationCompleted(urls) ==
    \E url \in urls, mainFrame \in BOOLEAN :
        /\ probe' = NavigationEvent(url, mainFrame)
        /\ IF mainFrame /\ userSettings.enableRealTimeMonitoring
           THEN /\ analyzeUrl(url, TRUE, FALSE)
                /\ UNCHANGED <<userSettings, storedSettings, loadPending, historyStore, popup>>
           ELSE /\ response' = NavigationIgnored
                /\ UNCHANGED <<userSettings, storedSettings, loadPending, analysisCache, tasks,
                               historyStore, historyGets, now, popup>>

\* the ways performLlmAnalysis leaves its try blocks by a throw: fetch
\* rejects, response.ok is false, the content holds no {...}, and
\* evidence.join is not a function
FailurePaths == {"network_error", "http_error", "no_json", "evidence_error"}

\* the step a remote call that ended in `outcome` leads performLlmAnalysis
\* to: the throw that takes it to a catch block, or the return of the try
LlmPath(outcome) ==
    IF outcome.kind # "json" THEN outcome.kind
    ELSE IF outcome.evidenceKind = "string" THEN "evidence_error"
    ELSE "remote"

\* the URLs whose remote call never ends, and those whose call does, where
\* a hung call is looked at
HungUrls == {"http://paypal.xn--pypal-4ve.tk/login"}

RespondingUrls == {"https://www.example.com/"}

\* an event loop that runs no continuation while a remote call that never
\* ends is pending, which C20 must tell from the code's
LlmResponseOf_HeadOfLine(task, outcomes) ==
    \E outcome \in outcomes :
        /\ \A other \in BagToSet(tasks) : other.url \notin HungUrls
        /\ task.op = "analyzeUrl"
        /\ BagIn(task, tasks)
        /\ now < MaxTime
        /\ now' = now + 1
        /\ tasks' = tasks (-) SetToBag({task})
        /\ FinishAnalysis(task.url, task.hasTab, task.forceRefresh, task.seen,
                          LlmPath(outcome), At(LlmTable[task.url][outcome], now'))
        /\ UNCHANGED <<userSettings, storedSettings, loadPending, historyStore,
                       popup, probe>>

\* the remote call of the suspended evaluation `task` ends and analyzeUrl
\* runs on
LlmResponseOf(task, outcomes) ==
    \E outcome \in outcomes :
        /\ task.op = "analyzeUrl"
        /\ BagIn(task, tasks)
        /\ now < MaxTime
        /\ now' = now + 1
        /\ tasks' = tasks (-) SetToBag({task})
        /\ FinishAnalysis(task.url, task.hasTab, task.forceRefresh, task.seen,
                          LlmPath(outcome), At(LlmTable[task.url][outcome], now'))
        /\ UNCHANGED <<userSettings, storedSettings, loadPending, historyStore,
                       popup, probe>>

\* the remote call of one suspended evaluation ends and analyzeUrl runs on
LlmResponse(outcomes) ==
    \E task \in BagToSet(tasks) : LlmResponseOf(task, outcomes)

\* a clearHistory that empties the cache as well, which C22 must tell from
\* the code's
ClearHistory_ClearsCache ==
    /\ historyStore' = << >>
    /\ analysisCache' = << >>
    /\ response' = [op |-> "clearHistory", success |-> TRUE]
    /\ UNCHANGED <<userSettings, storedSettings, loadPending, tasks,
                   historyGets, now, popup, probe>>

\* onMessage, request.action === "clearHistory"
ClearHistory ==
    /\ historyStore' = << >>
    /\ response' = [op |-> "clearHistory", success |-> TRUE]
    /\ UNCHANGED <<userSettings, storedSettings, loadPending, analysisCache, tasks,
                   historyGets, now, popup, probe>>

(***************************************************************************)
(* Online search: the onlineSearch message                                 *)
(***************************************************************************)

\* an online search suspended on fetch, with the storeHistory setting in
\* force when it was invoked
SearchTask(url, seen) == [op |-> "onlineSearch", url |-> url, seen |-> seen]

\* the value performOnlineSearch resolves to, with the call it answers and
\* the path it took
SearchReply(url, seen, path, result) ==
    [op |-> "onlineSearch", url |-> url, seen |-> seen, path |-> path, result |-> result]

\* an end of performOnlineSearch that writes the history entry whatever
\* storeHistory is, which C17 must tell from the code's
FinishSearch_AlwaysStores(url, seen, path, result) ==
    /\ now < MaxTime
    /\ now' = now + 1
    /\ storeAnalysisInHistory(
          SearchHistoryEntry(url, SearchLabel(path), path # "parsed", result, now'))
    /\ response' = SearchReply(url, seen, path, result)

\* the end of performOnlineSearch on each of its paths: the history entry
\* is built and written if storeHistory is on, and the result is returned
FinishSearch(url, seen, path, result) ==
    /\ IF userSettings.storeHistory
       THEN /\ now < MaxTime
            /\ now' = now + 1
            /\ storeAnalysisInHistory(
                  SearchHistoryEntry(url, SearchLabel(path), path # "parsed", result, now'))
       ELSE UNCHANGED <<now, historyGets>>
    /\ response' = SearchReply(url, seen, path, result)

\* performOnlineSearch(url) up to its return or its suspension on fetch
performOnlineSearchFrom(url, seen, message) ==
    IF message # ""
    THEN /\ FinishSearch(url, seen, "error", SearchErrorResult(message))
         /\ UNCHANGED tasks
    ELSE /\ now + BagCardinality(tasks) < MaxTime
         /\ tasks' = tasks (+) SetToBag({SearchTask(url, seen)})
         /\ response' = NoResponse
         /\ UNCHANGED <<now, historyGets>>

\* an onlineSearch handler that answers from the cache when it holds the
\* URL, which C24 must tell from the code's
OnlineSearchMessage_ReadsCache(urls) ==
    \E url \in urls :
        /\ performOnlineSearchFrom(url, [storeHistory |-> userSettings.storeHistory],
                                   IF url \in DOMAIN analysisCache
                                   THEN "cached: " \o analysisCache[url].category
                                   ELSE SearchStartError(userSettings.openaiApiKey,
                                                         UrlParsesTable[url]))
        /\ UNCHANGED <<userSettings, storedSettings, loadPending, analysisCache,
                       historyStore, popup, probe>>

\* onMessage, request.action === "onlineSearch"
OnlineSearchMessage(urls) ==
    \E url \in urls :
        /\ performOnlineSearchFrom(url, [storeHistory |-> userSettings.storeHistory],
                                   SearchStartError(userSettings.openaiApiKey,
                                                    UrlParsesTable[url]))
        /\ UNCHANGED <<userSettings, storedSettings, loadPending, analysisCache,
                       historyStore, popup, probe>>

\* the remote call of one suspended online search ends and
\* performOnlineSearch runs on
SearchResponse(outcomes) ==
    \E task \in BagToSet(tasks), outcome \in outcomes :
        /\ task.op = "onlineSearch"
        /\ tasks' = tasks (-) SetToBag({task})
        /\ FinishSearch(task.url, task.seen, SearchPath(outcome),
                        SearchTable[task.url][outcome])
        /\ UNCHANGED <<userSettings, storedSettings, loadPending, analysisCache,
                       historyStore, popup, probe>>

(***************************************************************************)
(* The popup (src/popup.js): its copy of the settings and the handlers     *)
(* that change the lists.  A message the popup sends is handled by the     *)
(* background in the same step; its response callback runs in a later one. *)
(***************************************************************************)

\* the page the popup is opened on
PopupUrls == {"https://www.example.com/"}

\* what the user types into the prompt of promptAddDomain ("" also stands
\* for a cancelled prompt)
PromptInputs == {"", "example.com", "www.example.com", "not a domain"}

\* /^[a-zA-Z0-9]([a-zA-Z0-9\-]{0,61}[a-zA-Z0-9])?$/ for one label
IsDomainLabel(label) ==
    /\ Len(label) >= 1
    /\ Len(label) <= 63
    /\ IsAlphaNum(CharAt(label, 1))
    /\ IsAlphaNum(CharAt(label, Len(label)))
    /\ \A i \in 1..Len(label) : IsAlphaNum(CharAt(label, i)) \/ CharAt(label, i) = "-"

\* /^[a-zA-Z]{2,}$/ for the last label
IsTopLevelLabel(label) ==
    /\ Len(label) >= 2
    /\ \A i \in 1..Len(label) : Includes(LowerLetters \o UpperLetters, CharAt(label, i))

\* the test of isValidDomain on the labels of the domain
AreDomainLabels(labels) ==
    /\ Len(labels) >= 2
    /\ \A i \in 1..(Len(labels) - 1) : IsDomainLabel(labels[i])
    /\ IsTopLevelLabel(labels[Len(labels)])

\* isValidDomain(domain)
isValidDomain(domain) == AreDomainLabels(Split(domain, "."))

ValidDomainTable == [domain \in PromptInputs |-> isValidDomain(domain)]

\* new URL(currentUrl).hostname
HostTable == [url \in PopupUrls \cup Urls |-> NewURL(url).hostname]

\* the popup once initializePopup has run and tabs.query has answered: the
\* getSettings message has been handled and its response is on its way,
\* the analyzeUrl message for the page is still to be sent
PopupOpened(url) ==
    [open |-> TRUE, settings |-> DefaultSettings, currentUrl |-> url,
     currentDomain |-> HostTable[url], getSettings |-> "pending", reply |-> userSettings,
     requests |-> {FALSE}, moved |-> FALSE]

\* the user opens the popup on one of the pages `urls`
PopupOpenOn(urls) ==
    /\ ~popup.open
    /\ \E url \in urls : popup' = PopupOpened(url)
    /\ response' = [op |-> "getSettings", settings |-> userSettings]
    /\ UNCHANGED <<userSettings, storedSettings, loadPending, analysisCache, tasks,
                   historyStore, historyGets, now, probe>>

PopupOpen == PopupOpenOn(PopupUrls)

\* the callback of the getSettings message: settings = response
GetSettingsResponse ==
    /\ popup.open
    /\ popup.getSettings = "pending"
    /\ popup' = [popup EXCEPT !.settings = popup.reply, !.getSettings = "done",
                              !.reply = DefaultSettings]
    /\ response' = NoResponse
    /\ UNCHANGED <<userSettings, storedSettings, loadPending, analysisCache, tasks,
                   historyStore, historyGets, now, probe>>

\* the popup sends an analyzeUrl message for its page: the one of
\* initializePopup (forceRefresh undefined) or the one a callback of
\* updateSettings sends (forceRefresh true)
PopupAnalyze ==
    /\ popup.open
    /\ \E forceRefresh \in popup.requests :
          /\ analyzeUrl(popup.currentUrl, FALSE, forceRefresh)
          /\ popup' = [popup EXCEPT !.requests = @ \ {forceRefresh}]
    /\ UNCHANGED <<userSettings, storedSettings, loadPending, historyStore, probe>>

\* settings after the click handler of whitelistButton
whitelistButtonClick(settings, currentDomain) ==
    IF currentDomain \in settings.whitelistedDomains
    THEN [settings EXCEPT !.whitelistedDomains = @ \ {currentDomain}]
    ELSE [settings EXCEPT !.blacklistedDomains = @ \ {currentDomain},
                          !.whitelistedDomains = @ \cup {currentDomain}]

\* promptAddDomain without the removal from the other list, which C6 must
\* tell from the code's
promptAddDomain_NoRemoval(settings, listType, domain) ==
    IF listType = "whitelist"
    THEN [settings EXCEPT !.whitelistedDomains = @ \cup {domain}]
    ELSE IF listType = "blacklist"
    THEN [settings EXCEPT !.blacklistedDomains = @ \cup {domain}]
    ELSE settings

\* settings after promptAddDomain(listType) with a valid domain typed
promptAddDomain(settings, listType, domain) ==
    IF listType = "whitelist"
    THEN [settings EXCEPT !.blacklistedDomains = @ \ {domain},
                          !.whitelistedDomains = @ \cup {domain}]
    ELSE IF listType = "blacklist"
    THEN [settings EXCEPT !.whitelistedDomains = @ \ {domain},
                          !.blacklistedDomains = @ \cup {domain}]
    ELSE settings

\* settings after handleRemoveDomain for the remove button of `domain` in
\* the list `list`
handleRemoveDomain(settings, list, domain) ==
    IF list = "whitelist"
    THEN [settings EXCEPT !.whitelistedDomains = @ \ {domain}]
    ELSE IF list = "blacklist"
    THEN [settings EXCEPT !.blacklistedDomains = @ \ {domain}]
    ELSE settings

\* the popup's settings become `settings` and saveSettings() sends them all
\* to the background; `moved` records that the edit took the domain off the
\* other list
SaveSettings(settings, moved) ==
    /\ popup' = [popup EXCEPT !.settings = settings, !.moved = moved]
    /\ updateSettings(Partial(FieldNames, settings))
    /\ UNCHANGED probe

\* click on whitelistButton: the callback of its updateSettings message
\* will ask for a forced evaluation of the page
WhitelistClick ==
    /\ popup.open
    /\ popup.currentDomain # ""
    /\ popup' = [popup EXCEPT
                   !.settings = whitelistButtonClick(popup.settings, popup.currentDomain),
                   !.moved = /\ popup.currentDomain \notin popup.settings.whitelistedDomains
                             /\ popup.currentDomain \in popup.settings.blacklistedDomains,
                   !.requests = @ \cup {TRUE}]
    /\ updateSettings(Partial(FieldNames, popup'.settings))
    /\ UNCHANGED probe

\* click on addWhitelistButton or addBlacklistButton
PromptAddDomain ==
    /\ popup.open
    /\ \E listType \in {"whitelist", "blacklist"}, domain \in PromptInputs :
          IF domain = "" \/ ~ValidDomainTable[domain]
          THEN /\ response' = NoResponse
               /\ UNCHANGED <<userSettings, storedSettings, loadPending, analysisCache,
                              tasks, historyStore, historyGets, now, popup, probe>>
          ELSE SaveSettings(promptAddDomain(popup.settings, listType, domain),
                            IF listType = "whitelist"
                            THEN domain \in popup.settings.blacklistedDomains
                            ELSE domain \in popup.settings.whitelistedDomains)

\* click on the remove button of an entry of a list
RemoveDomainClick ==
    /\ popup.open
    /\ \/ \E domain \in popup.settings.whitelistedDomains :
             SaveSettings(handleRemoveDomain(popup.settings, "whitelist", domain), FALSE)
       \/ \E domain \in popup.settings.blacklistedDomains :
             SaveSettings(handleRemoveDomain(popup.settings, "blacklist", domain), FALSE)

\* change of showNotificationsToggle
ShowNotificationsToggle ==
    /\ popup.open
    /\ \E checked \in BOOLEAN :
          SaveSettings([popup.settings EXCEPT !.showNotifications = checked], FALSE)

\* the popup is closed: its callbacks never run
PopupClose ==
    /\ popup.open
    /\ popup' = PopupClosed
    /\ response' = NoResponse
    /\ UNCHANGED <<userSettings, storedSettings, loadPending, analysisCache, tasks,
                   historyStore, historyGets, now, probe>>

(***************************************************************************)
(* The evaluation engine: settings updates of the lists and the key, and   *)
(* evaluations asked for by message, with history off as installed         *)
(***************************************************************************)

EngineUpdateSettings == UpdateSettingsMessage(ListUpdates \cup KeyUpdates)

EngineAnalyzeUrl == AnalyzeUrlMessage(Urls \cup {UndefinedUrl})

EngineLlmResponse == LlmResponse(LlmOutcomes)

Next ==
    \/ EngineUpdateSettings
    \/ EngineAnalyzeUrl
    \/ EngineLlmResponse

Spec == Init /\ [][Next]_vars

(***************************************************************************)
(* The engine with history storage: storeHistory can be switched on, the   *)
(* callbacks of storeAnalysisInHistory run and the log can be cleared      *)
(***************************************************************************)

HistoryUrls == {"https://www.example.com/"}

HistoryOutcomes ==
    { LlmOutcome("network_error", JsUndefined, "missing", <<>>),
      LlmOutcome("json", JsNum(75), "array", <<"Odd host", "Login form">>) }

HistoryUpdateSettings ==
    UpdateSettingsMessage(StoreHistoryUpdates \cup ListUpdates \cup KeyUpdates)

HistoryAnalyzeUrl == AnalyzeUrlMessage(HistoryUrls)

HistoryLlmResponse == LlmResponse(HistoryOutcomes)

NextHistory ==
    \/ HistoryUpdateSettings
    \/ HistoryAnalyzeUrl
    \/ HistoryLlmResponse
    \/ HistoryCallback
    \/ ClearHistory

SpecHistory == Init /\ [][NextHistory]_vars

(***************************************************************************)
(* The settings as the popup changes them, with the evaluations the popup  *)
(* asks for                                                                *)
(***************************************************************************)

NextPopup ==
    \/ PopupOpen
    \/ GetSettingsResponse
    \/ PopupAnalyze
    \/ WhitelistClick
    \/ PromptAddDomain
    \/ RemoveDomainClick
    \/ ShowNotificationsToggle
    \/ PopupClose

SpecPopup == Init /\ [][NextPopup]_vars

(***************************************************************************)
(* The whitelist button on its own: the popup is opened on each of the     *)
(* URLs evaluated, its button is pressed, and the evaluations it asks for  *)
(* are answered                                                            *)
(***************************************************************************)

WhitelistPopupOpen == PopupOpenOn(Urls)

NextWhitelist ==
    \/ WhitelistPopupOpen
    \/ GetSettingsResponse
    \/ PopupAnalyze
    \/ WhitelistClick
    \/ PopupClose

SpecWhitelist == Init /\ [][NextWhitelist]_vars

(***************************************************************************)
(* The two category chains applied on their own to a score                 *)
(***************************************************************************)

\* the scores classified: every integer from -MaxProbeScore to MaxProbeScore
MaxProbeScore == 120

ProbeScores ==
    {JsNum(n) : n \in (0 - MaxProbeScore)..MaxProbeScore} \cup {JsText("high")}

\* the category each chain gives threatScore
ClassifyProbe ==
    /\ \E threatScore \in ProbeScores :
          probe' = [fn |-> "classify", threatScore |-> threatScore,
                    heuristic |-> HeuristicCategory(threatScore),
                    llm |-> LlmCategory(threatScore)]
    /\ response' = NoResponse
    /\ UNCHANGED <<userSettings, storedSettings, loadPending, analysisCache, tasks,
                   historyStore, historyGets, now, popup>>

SpecClassify == Init /\ [][ClassifyProbe]_vars

(***************************************************************************)
(* Evaluations and online searches side by side: the extension starts with *)
(* both API keys stored, and history storage and the OpenAI key are        *)
(* switched by updateSettings                                              *)
(***************************************************************************)

OpenAiKeyUpdates ==
    {Partial({"openaiApiKey"}, [DefaultSettings EXCEPT !.openaiApiKey = k]) :
        k \in {"", "sk-key"}}

SearchSpecOutcomes ==
    { SearchOutcome("network_error", "Failed to fetch", "", NoParsed),
      SearchOutcome("json", "", "",
                    ParsedSearch(JsNum(80), JsBool(TRUE), "Long registered bank domain.",
                                 TRUE, <<"Registered in 1995">>, TRUE, <<"None">>)) }

SearchUpdateSettings ==
    UpdateSettingsMessage(StoreHistoryUpdates \cup OpenAiKeyUpdates)

SearchAnalyzeUrl == AnalyzeUrlMessage(HistoryUrls)

SearchLlmResponse == LlmResponse(HistoryOutcomes)

SearchOnlineSearch == OnlineSearchMessage(HistoryUrls)

SearchSearchResponse == SearchResponse(SearchSpecOutcomes)

NextSearch ==
    \/ SearchUpdateSettings
    \/ SearchAnalyzeUrl
    \/ SearchLlmResponse
    \/ SearchOnlineSearch
    \/ SearchSearchResponse
    \/ HistoryCallback

KeySettings == [DefaultSettings EXCEPT !.deepseekApiKey = "ds-key", !.openaiApiKey = "sk-key"]

InitSearch ==
    /\ userSettings = KeySettings
    /\ storedSettings = [present |-> TRUE, value |-> KeySettings]
    /\ loadPending = LoadDone
    /\ analysisCache = << >>
    /\ tasks = EmptyBag
    /\ historyStore = << >>
    /\ historyGets = << >>
    /\ now = 0
    /\ response = NoResponse
    /\ popup = PopupClosed
    /\ probe = NoProbe

SpecSearch == InitSearch /\ [][NextSearch]_vars

(***************************************************************************)
(* A remote call that never ends: the calls for HungUrls get no answer,    *)
(* the call of every other suspended evaluation ends at some time and its  *)
(* continuation is then run by the event loop                              *)
(***************************************************************************)

LiveOutcomes ==
    { LlmOutcome("network_error", JsUndefined, "missing", <<>>),
      LlmOutcome("json", JsNum(75), "array", <<"Odd host", "Login form">>) }

\* the evaluations of RespondingUrls that can be suspended on fetch
RespondingTasks ==
    {Task(url, FALSE, forceRefresh,
          [whitelisted |-> FALSE, blacklisted |-> FALSE, cached |-> cached,
           storeHistory |-> FALSE, showNotifications |-> TRUE]) :
        url \in RespondingUrls, forceRefresh \in BOOLEAN, cached \in BOOLEAN}

LiveUpdateSettings == UpdateSettingsMessage(ListUpdates \cup KeyUpdates)

\* the bound on the clock leaves every suspended evaluation the reading it
\* needs to build its result
LiveAnalyzeUrl ==
    /\ AnalyzeUrlMessage(HungUrls \cup RespondingUrls)
    /\ now' + BagCardinality(tasks') <= MaxTime

LiveLlmResponse == \E task \in RespondingTasks : LlmResponseOf(task, LiveOutcomes)

NextLive ==
    \/ LiveUpdateSettings
    \/ LiveAnalyzeUrl
    \/ LiveLlmResponse

SpecLive ==
    /\ Init
    /\ [][NextLive]_vars
    /\ \A task \in RespondingTasks : WF_vars(LlmResponseOf(task, LiveOutcomes))

(***************************************************************************)
(* Settings from the start of the service worker: the startup load is      *)
(* pending, and updateSettings requests carry any subset of three fields,  *)
(* one of each kind (a flag, a list, a key)                                *)
(***************************************************************************)

SettingsFields == {"showNotifications", "whitelistedDomains", "deepseekApiKey"}

\* the request with the properties `fields` taken from `values`
Request(fields, values) ==
    Partial(fields, [f \in FieldNames |-> IF f \in fields THEN values[f]
                                          ELSE DefaultSettings[f]])

SettingsUpdates ==
    {Request(fields, [DefaultSettings EXCEPT !.showNotifications = b,
                                             !.whitelistedDomains = d,
                                             !.deepseekApiKey = k]) :
        fields \in SUBSET SettingsFields, b \in BOOLEAN, d \in SUBSET ListDomains,
        k \in {"", "ds-key"}}

SettingsUpdate == UpdateSettingsRecorded(SettingsUpdates)

NextSettings ==
    \/ StartupLoad
    \/ SettingsUpdate

SpecSettings == InitStartup /\ [][NextSettings]_vars

(***************************************************************************)
(* The history log near its limit: the extension has run with storeHistory *)
(* on and the log holds up to LogMargin entries, or is within LogMargin    *)
(* entries of HistoryLimit                                                 *)
(***************************************************************************)

LogMargin == 2

LogLengths == (0..LogMargin) \cup ((HistoryLimit - LogMargin)..HistoryLimit)

\* the i-th entry of a log written before the clock of the model started:
\* the newest entry is the first, so entry i was built at time -i
OldEntry(i) == At(HeuristicTable["https://www.example.com/"], 0 - i)

StoredLogs == {[i \in 1..n |-> OldEntry(i)] : n \in LogLengths}

HistorySettings == [DefaultSettings EXCEPT !.storeHistory = TRUE]

InitLog ==
    /\ userSettings = HistorySettings
    /\ storedSettings = [present |-> TRUE, value |-> HistorySettings]
    /\ loadPending = LoadDone
    /\ analysisCache = << >>
    /\ tasks = EmptyBag
    /\ historyStore \in StoredLogs
    /\ historyGets = << >>
    /\ now = 0
    /\ response = NoResponse
    /\ popup = PopupClosed
    /\ probe = NoProbe

LogAnalyzeUrl == AnalyzeUrlMessage(HistoryUrls)

NextLog ==
    \/ LogAnalyzeUrl
    \/ HistoryCallback
    \/ ClearHistory

SpecLog == InitLog /\ [][NextLog]_vars

(***************************************************************************)
(* Online searches on their own, with history off as installed: the       *)
(* OpenAI key is missing, malformed or well-formed, the URL of the request *)
(* is a URL or is missing, and the remote call ends in every way           *)
(* SearchOutcomes lists                                                    *)
(***************************************************************************)

AssessKeyUpdates ==
    {Partial({"openaiApiKey"}, [DefaultSettings EXCEPT !.openaiApiKey = k]) :
        k \in {"", "bad-key", "sk-key"}}

AssessUpdateSettings == UpdateSettingsMessage(AssessKeyUpdates)

AssessOnlineSearch == OnlineSearchMessage(SearchUrls)

AssessSearchResponse == SearchResponse(SearchOutcomes)

NextAssess ==
    \/ AssessUpdateSettings
    \/ AssessOnlineSearch
    \/ AssessSearchResponse

SpecAssess == InitSearch /\ [][NextAssess]_vars

(***************************************************************************)
(* The pure functions applied on their own: extractDomain and the          *)
(* heuristic scorer to URLs built from a scheme, a host and a path,        *)
(* performLlmAnalysis to the risk_score values a remote answer can carry,  *)
(* parseUrl to strings that do and do not parse, parseTextResponse to      *)
(* answers in prose, and performOnlineSearch to the confidence values a    *)
(* remote answer can carry                                                 *)
(***************************************************************************)

ProbeSchemes == {"http", "https"}

\* hosts of one to five labels, with and without a second-level label, a
\* punycode label, an IPv4 literal, a suspicious TLD and brand names
ProbeHosts ==
    { "localhost", "example.com", "www.example.com", "a.b.example.com",
      "a.b.c.example.com", "mail.google.co.uk", "shop.example.org.au",
      "xn--pypal-4ve.com", "paypal.xn--pypal-4ve.tk", "192.168.1.1",
      "paypal.com.evil.top", "wellsfargo.com", "paypa1.com" }

ProbePaths == {"/", "/login"}

\* a path of 18 characters that are no letters or digits, and one that
\* makes a URL of 101 characters with https://example.com
SpecialPath == "/a-b-c-d-e-f-g-h-i-j-k-l-m-n-o-p-q-r"

LongPath ==
    "/aaaaaaaaaaaaaaaaaaaaaaaaaaaaaaaaaaaaaaaaaaaaaaaaaaaaaaaaaaaaaaaaaaaaaaaaaaaaaaaaa"

ProbeUrls ==
    {scheme \o "://" \o host \o path :
        scheme \in ProbeSchemes, host \in ProbeHosts, path \in ProbePaths}
    \cup {"https://mail.google.co.uk/path",
          "https://www.example.com" \o SpecialPath,
          "http://a.b.c.example.com" \o SpecialPath,
          "https://example.com" \o LongPath}

\* extractDomain(url) with the URL object it was computed from
DomainProbe(url, urlObj) ==
    [fn |-> "extractDomain", url |-> url, ok |-> urlObj.ok, hostname |-> urlObj.hostname,
     domain |-> extractDomain(url)]

\* performHeuristicAnalysis(parseUrl(url)) with what its checks found: the
\* checks that triggered (their places in source order, their points and
\* their reasons) and the brand similarity score
HeuristicProbe(url, urlData, checks) ==
    [fn |-> "performHeuristicAnalysis", url |-> url, hostname |-> urlData.hostname,
     rows |-> {k \in 1..Len(checks) : checks[k].hit},
     points |-> [k \in 1..Len(SelectSeq(checks, IsHit)) |-> SelectSeq(checks, IsHit)[k].points],
     reasons |-> [k \in 1..Len(SelectSeq(checks, IsHit)) |-> SelectSeq(checks, IsHit)[k].reason],
     similarity |-> checkBrandSimilarity(urlData.domain, urlData.containsCommonBrands),
     result |-> performHeuristicAnalysis(urlData, 0)]

\* remote answers that hold a JSON object: risk_score missing, a string
\* that is no number, below 0, above 100, and in range
RangeOutcomes ==
    {LlmOutcome("json", risk_score, "array", <<"Known scam">>) :
        risk_score \in {JsUndefined, JsText("high"), JsNum(0 - 5), JsNum(150),
                        JsNum(0), JsNum(50), JsNum(100)}}

\* performLlmAnalysis for a remote answer, with the heuristic result for
\* the same URL
LlmProbe(url, urlData, outcome) ==
    [fn |-> "performLlmAnalysis", url |-> url, outcome |-> outcome,
     result |-> performLlmAnalysis(urlData, outcome, 0),
     heuristic |-> performHeuristicAnalysis(urlData, 0)]

\* the three functions tabulated over their inputs.  A bound variable
\* holds a value and an operator argument holds an expression that is
\* computed again at each use, so the URL object, the features and the
\* checks of each URL are bound by a quantifier over a one-element set,
\* and @@ turns each table into a function computed once.
DomainProbeTable ==
    [url \in ProbeUrls |->
        CHOOSE entry \in {DomainProbe(url, urlObj) : urlObj \in {NewURL(url)}} : TRUE]
        @@ << >>

HeuristicProbeOf(url, urlData) ==
    CHOOSE entry \in {HeuristicProbe(url, urlData, checks) :
                         checks \in {HeuristicChecks(urlData)}} : TRUE

HeuristicProbeTable ==
    [url \in ProbeUrls |->
        CHOOSE entry \in {HeuristicProbeOf(url, urlData) : urlData \in {parseUrl(url)}} : TRUE]
        @@ << >>

LlmProbeTable ==
    [url \in Urls |->
        [outcome \in RangeOutcomes |->
            CHOOSE entry \in {LlmProbe(url, urlData, outcome) :
                                 urlData \in {parseUrl(url)}} : TRUE] @@ << >>]
        @@ << >>

\* what parseUrl is called with: no URL at all (a message without one), strings
\* that new URL() rejects, and URLs that parse
ParseInputs ==
    {UndefinedUrl, "", "not a url", "example.com", "http://",
     "https://www.example.com/", "http://paypal.xn--pypal-4ve.tk/login"}

\* parseUrl(url): for a missing url, new URL(undefined) throws and the
\* catch block throws again on url.length, so nothing is returned
ParseProbe(url) ==
    IF url = UndefinedUrl
    THEN [fn |-> "parseUrl", url |-> url, threw |-> TRUE, parsed |-> FALSE]
    ELSE [fn |-> "parseUrl", url |-> url, threw |-> FALSE, parsed |-> NewURL(url).ok,
          record |-> parseUrl(url)]

ParseProbeTable == [url \in ParseInputs |-> ParseProbe(url)] @@ << >>

\* answers in prose: no keyword, keywords of one kind (one to five of
\* them, in capitals, inside another word), of both kinds with and without
\* a tie, and more than three sentences of 21 to 149 characters
ProseTexts ==
    {"", "This site is safe.", "SAFE and TRUSTED", "Entering data here is unsafe",
     "safe trusted official", "safe trusted official verified",
     "safe trusted official verified authentic", "safe but suspicious",
     "legitimate and safe, no scam", "fake scam, phishing, malicious",
     "This looks like a phishing scam. Avoid it!",
     "The domain is long established. It is the official site of the bank! Were phishing reports found? The certificate is valid today."}

\* parseTextResponse(textResponse, domain) with the two keyword counts
TextProbe(textResponse, domain) ==
    [fn |-> "parseTextResponse", text |-> textResponse,
     legitimateScore |-> CountIncluded(ToLowerCase(textResponse), legitimateKeywords),
     suspiciousScore |-> CountIncluded(ToLowerCase(textResponse), textSuspiciousKeywords),
     result |-> parseTextResponse(textResponse, domain)]

TextProbeTable == [text \in ProseTexts |-> TextProbe(text, "example.com")] @@ << >>

\* remote answers of the online search that hold a JSON object: confidence
\* missing, 0, inside 0..100, at its ends, and outside
ConfidenceOutcomes ==
    {SearchOutcome("json", "", "",
                   ParsedSearch(confidence, JsBool(FALSE), "Reported as a scam.",
                                TRUE, <<"Listed by PhishTank">>, TRUE, <<"Avoid it">>)) :
        confidence \in {JsUndefined, JsNum(0), JsNum(1), JsNum(50), JsNum(100),
                        JsNum(150), JsNum(0 - 5)}}

\* performOnlineSearch from the remote answer to its return value
SearchProbe(domain, outcome) ==
    [fn |-> "performOnlineSearch", outcome |-> outcome,
     result |-> performOnlineSearch(domain, outcome)]

\* extractDomain(url)
ProbeDomain ==
    /\ \E url \in ProbeUrls : probe' = DomainProbeTable[url]
    /\ response' = NoResponse
    /\ UNCHANGED <<userSettings, storedSettings, loadPending, analysisCache, tasks,
                   historyStore, historyGets, now, popup>>

\* performHeuristicAnalysis(parseUrl(url))
ProbeHeuristic ==
    /\ \E url \in ProbeUrls : probe' = HeuristicProbeTable[url]
    /\ response' = NoResponse
    /\ UNCHANGED <<userSettings, storedSettings, loadPending, analysisCache, tasks,
                   historyStore, historyGets, now, popup>>

\* performLlmAnalysis(parseUrl(url)) when the remote call ends in outcome
ProbeLlm ==
    /\ \E url \in Urls, outcome \in RangeOutcomes : probe' = LlmProbeTable[url][outcome]
    /\ response' = NoResponse
    /\ UNCHANGED <<userSettings, storedSettings, loadPending, analysisCache, tasks,
                   historyStore, historyGets, now, popup>>

\* parseUrl(url)
ProbeParse ==
    /\ \E url \in ParseInputs : probe' = ParseProbeTable[url]
    /\ response' = NoResponse
    /\ UNCHANGED <<userSettings, storedSettings, loadPending, analysisCache, tasks,
                   historyStore, historyGets, now, popup>>

\* parseTextResponse(textResponse, domain)
ProbeText ==
    /\ \E text \in ProseTexts : probe' = TextProbeTable[text]
    /\ response' = NoResponse
    /\ UNCHANGED <<userSettings, storedSettings, loadPending, analysisCache, tasks,
                   historyStore, historyGets, now, popup>>

\* performOnlineSearch(url) when the remote call ends in outcome
ProbeSearch ==
    /\ \E outcome \in ConfidenceOutcomes : probe' = SearchProbe("example.com", outcome)
    /\ response' = NoResponse
    /\ UNCHANGED <<userSettings, storedSettings, loadPending, analysisCache, tasks,
                   historyStore, historyGets, now, popup>>

NextProbe ==
    \/ ProbeDomain
    \/ ProbeHeuristic
    \/ ProbeLlm
    \/ ProbeParse
    \/ ProbeText
    \/ ProbeSearch

SpecProbe == Init /\ [][NextProbe]_vars

(***************************************************************************)
(* The brand-similarity detector on its own: levenshteinDistance for pairs *)
(* of words and checkBrandSimilarity for a domain and the brands found     *)
(***************************************************************************)

\* words for levenshteinDistance, the empty word among them
DistanceWords ==
    {"", "a", "kitten", "sitting", "flaw", "lawn", "paypal", "paypa1", "google", "gogle"}

\* domains for checkBrandSimilarity: none, brand names, near misses with
\* and without a TLD, and one at a similarity of exactly 0.7
SimilarityDomains ==
    {"", "paypal", "paypa1", "gooogle", "vis4", "attt", "example.com", "paypa1.com",
     "netflix.io", "facebook.io", "wellsfargo.com", "bankofamerica.com"}

\* brand lists for checkBrandSimilarity: none, one brand, several, a brand
\* of three letters, and all of them
SimilarityBrands ==
    {<< >>, <<"paypal">>, <<"google", "paypal">>, <<"att">>, <<"visa">>, <<"netflix">>,
     <<"facebook">>, <<"wellsfargo">>, <<"bankofamerica", "amex">>, commonBrands}

\* levenshteinDistance(a, b)
DistanceProbe(a, b) ==
    [fn |-> "levenshteinDistance", a |-> a, b |-> b, result |-> levenshteinDistance(a, b)]

\* checkBrandSimilarity(domain, brands)
SimilarityProbe(domain, brands) ==
    [fn |-> "checkBrandSimilarity", domain |-> domain, brands |-> brands,
     result |-> checkBrandSimilarity(domain, brands)]

\* the two functions tabulated over their inputs, each table computed once
DistanceProbeTable ==
    [a \in DistanceWords |-> [b \in DistanceWords |-> DistanceProbe(a, b)] @@ << >>] @@ << >>

SimilarityProbeTable ==
    [domain \in SimilarityDomains |->
        [brands \in SimilarityBrands |-> SimilarityProbe(domain, brands)] @@ << >>] @@ << >>

ProbeDistance ==
    /\ \E a \in DistanceWords, b \in DistanceWords : probe' = DistanceProbeTable[a][b]
    /\ response' = NoResponse
    /\ UNCHANGED <<userSettings, storedSettings, loadPending, analysisCache, tasks,
                   historyStore, historyGets, now, popup>>

ProbeSimilarity ==
    /\ \E domain \in SimilarityDomains, brands \in SimilarityBrands :
          probe' = SimilarityProbeTable[domain][brands]
    /\ response' = NoResponse
    /\ UNCHANGED <<userSettings, storedSettings, loadPending, analysisCache, tasks,
                   historyStore, historyGets, now, popup>>

NextBrand ==
    \/ ProbeDistance
    \/ ProbeSimilarity

SpecBrand == Init /\ [][NextBrand]_vars

(***************************************************************************)
(* Navigation monitoring next to the messages: the extension has both API  *)
(* keys and stores history; monitoring and the lists are switched by       *)
(* updateSettings, pages finish loading in top frames and sub-frames, and  *)
(* evaluations, online searches and clearHistory are asked for by message  *)
(***************************************************************************)

MonitoringUpdates ==
    {Partial({"enableRealTimeMonitoring"},
             [DefaultSettings EXCEPT !.enableRealTimeMonitoring = b]) : b \in BOOLEAN}

MonitorSettings == [KeySettings EXCEPT !.storeHistory = TRUE]

InitMonitor ==
    /\ userSettings = MonitorSettings
    /\ storedSettings = [present |-> TRUE, value |-> MonitorSettings]
    /\ loadPending = LoadDone
    /\ analysisCache = << >>
    /\ tasks = EmptyBag
    /\ historyStore = << >>
    /\ historyGets = << >>
    /\ now = 0
    /\ response = NoResponse
    /\ popup = PopupClosed
    /\ probe = NoProbe

MonitorUpdateSettings == UpdateSettingsMessage(MonitoringUpdates \cup ListUpdates)

MonitorNavigation == NavigationCompleted(HistoryUrls)

MonitorAnalyzeUrl == AnalyzeUrlMessage(HistoryUrls)

MonitorLlmResponse == LlmResponse(HistoryOutcomes)

MonitorOnlineSearch == OnlineSearchMessage(HistoryUrls)

MonitorSearchResponse == SearchResponse(SearchSpecOutcomes)

NextMonitor ==
    \/ MonitorUpdateSettings
    \/ MonitorNavigation
    \/ MonitorAnalyzeUrl
    \/ MonitorLlmResponse
    \/ MonitorOnlineSearch
    \/ MonitorSearchResponse
    \/ HistoryCallback
    \/ ClearHistory

SpecMonitor == InitMonitor /\ [][NextMonitor]_vars

(***************************************************************************)
(* Properties                                                              *)
(***************************************************************************)

\* the last step answered an analyzeUrl call
Replied == response.op = "analyzeUrl"

\* the results held in the cache
CachedResults == {analysisCache[url] : url \in DOMAIN analysisCache}

\* the results held in the history log or on their way into it
LoggedResults ==
    {historyStore[i] : i \in 1..Len(historyStore)}
    \cup {historyGets[i].analysis : i \in 1..Len(historyGets)}

\* the results the program holds or has just returned
HeldResults ==
    (IF Replied THEN {response.result} ELSE {}) \cup CachedResults \cup LoggedResults

\* C1 (Spec): whitelist precedence.  An analyzeUrl call whose URL had its
\* registrable domain on the whitelist when it was invoked resolves to
\* threatScore 0 and category SAFE, whatever the cache held, whatever
\* forceRefresh was and whether or not the domain was also blacklisted.
C1_WhitelistPrecedence ==
    (Replied /\ response.seen.whitelisted)
        => /\ response.result.threatScore = JsNum(0)
           /\ response.result.category = "SAFE"

\* C1 happens: a whitelisted domain that is also blacklisted and has a
\* cached result is evaluated without forceRefresh and comes out SAFE
C1_Witness ==
    /\ Replied
    /\ response.seen.whitelisted
    /\ response.seen.blacklisted
    /\ response.seen.cached
    /\ ~response.forceRefresh
    /\ response.result.threatScore = JsNum(0)

\* C2 (Spec): blacklist precedence.  An analyzeUrl call whose URL had its
\* registrable domain on the blacklist and not on the whitelist when it
\* was invoked resolves to threatScore 100 and category PHISHING, whatever
\* the cache held and whatever forceRefresh was.
C2_BlacklistPrecedence ==
    (Replied /\ response.seen.blacklisted /\ ~response.seen.whitelisted)
        => /\ response.result.threatScore = JsNum(100)
           /\ response.result.category = "PHISHING"

\* C2 happens: a blacklisted domain with a cached result is evaluated
\* without forceRefresh and comes out PHISHING
C2_Witness ==
    /\ Replied
    /\ response.seen.blacklisted
    /\ ~response.seen.whitelisted
    /\ response.seen.cached
    /\ ~response.forceRefresh
    /\ response.result.threatScore = JsNum(100)

\* C3 (SpecHistory): a step that answers a call whose domain was on the
\* whitelist or the blacklist leaves the cache and the history log (with
\* the writes on their way to it) unchanged and suspends no evaluation on
\* a remote request.
C3_ListStepFrame ==
    [][ (response'.op = "analyzeUrl"
            /\ (response'.seen.whitelisted \/ response'.seen.blacklisted))
        => /\ analysisCache' = analysisCache
           /\ historyStore' = historyStore
           /\ historyGets' = historyGets
           /\ tasks' = tasks ]_vars

\* C3 happens: a listed domain is evaluated while history storage is on,
\* the log and the cache hold a result and a remote request is pending
C3_Witness ==
    /\ Replied
    /\ response.path \in {"whitelist", "blacklist"}
    /\ userSettings.storeHistory
    /\ Len(historyStore) > 0
    /\ DOMAIN analysisCache # {}
    /\ tasks # EmptyBag

\* C4 (Spec): cache idempotence.  A step that answers a call made without
\* forceRefresh for a URL on neither list that had a cache entry returns
\* that entry as it is, timestamp included, builds no result (the clock is
\* not read), starts no remote request and leaves the cache alone; and if
\* the step before answered a call for the same URL, the two results are
\* equal.
C4_CacheIdempotence ==
    [][ (/\ response'.op = "analyzeUrl"
         /\ ~response'.forceRefresh
         /\ response'.seen.cached
         /\ ~response'.seen.whitelisted
         /\ ~response'.seen.blacklisted)
        => /\ response'.url \in DOMAIN analysisCache
           /\ response'.result = analysisCache[response'.url]
           /\ analysisCache' = analysisCache
           /\ tasks' = tasks
           /\ now' = now
           /\ (/\ Replied
               /\ response.url = response'.url
               /\ ~response.seen.whitelisted
               /\ ~response.seen.blacklisted)
              => response'.result = response.result ]_vars

\* C4 happens: a cached result is returned after the clock has moved on
\* from the time the result was built
C4_Witness ==
    /\ Replied
    /\ ~response.forceRefresh
    /\ response.seen.cached
    /\ ~response.seen.whitelisted
    /\ ~response.seen.blacklisted
    /\ response.result.timestamp < now

\* C5 (Spec): a step that answers a fresh evaluation of a URL string (the
\* domain on neither list, forceRefresh or no cache entry) leaves the cache
\* holding the returned result under that URL, replacing what was there,
\* and every other key as it was.
C5_FreshResultCached ==
    [][ (/\ response'.op = "analyzeUrl"
         /\ response'.url # UndefinedUrl
         /\ ~response'.seen.whitelisted
         /\ ~response'.seen.blacklisted
         /\ (response'.forceRefresh \/ ~response'.seen.cached))
        => /\ DOMAIN analysisCache' = DOMAIN analysisCache \cup {response'.url}
           /\ analysisCache'[response'.url] = response'.result
           /\ \A url \in DOMAIN analysisCache \ {response'.url} :
                 analysisCache'[url] = analysisCache[url] ]_vars

\* C5 happens: two URLs of one registrable domain are cached with
\* different scores, the second just evaluated afresh
C5_Witness ==
    /\ Replied
    /\ ~response.seen.whitelisted
    /\ ~response.seen.blacklisted
    /\ ~response.seen.cached
    /\ response.url = "http://example.com/login"
    /\ DOMAIN analysisCache = {"https://www.example.com/", "http://example.com/login"}
    /\ analysisCache["http://example.com/login"] = response.result
    /\ analysisCache["https://www.example.com/"].threatScore
          # analysisCache["http://example.com/login"].threatScore

\* C6 (SpecPopup): with the popup as the sender of the settings updates,
\* no domain is on both lists, in the settings the background holds and in
\* the settings it has stored.
C6_ListsDisjoint ==
    /\ userSettings.whitelistedDomains \cap userSettings.blacklistedDomains = {}
    /\ storedSettings.value.whitelistedDomains
          \cap storedSettings.value.blacklistedDomains = {}

\* C6 happens: the last update put on the whitelist a domain the popup had
\* on the blacklist
C6_Witness ==
    /\ response.op = "updateSettings"
    /\ popup.open
    /\ popup.moved
    /\ "example.com" \in userSettings.whitelistedDomains

\* the color the specification gives a category
SpecColor(category) ==
    CASE category = "SAFE" -> "#4CAF50"
      [] category = "SUSPICIOUS" -> "#FFC107"
      [] category = "HIGH_RISK" -> "#F44336"
      [] category = "PHISHING" -> "#F44336"

\* C7 (Spec): every result built by createAnalysisResult (a result with a
\* color) has the color of its category: SAFE green, SUSPICIOUS amber,
\* HIGH_RISK and PHISHING red.
C7_ColorOfCategory ==
    \A result \in HeldResults :
        "color" \in DOMAIN result => result.color = SpecColor(result.category)

\* the category the breakpoints give a number
SpecCategory(n) ==
    CASE n <= 25 -> "SAFE"
      [] n >= 26 /\ n <= 50 -> "SUSPICIOUS"
      [] n >= 51 /\ n <= 75 -> "HIGH_RISK"
      [] n > 75 -> "PHISHING"

\* C8 (Spec): in every result returned or cached whose threatScore is a
\* number, the category is the one the breakpoints give that number, on
\* every path (whitelist, blacklist, cache, remote, heuristic, error).
C8_CategoryOfScore ==
    \A result \in HeldResults :
        result.threatScore.type = "number"
            => result.category = SpecCategory(result.threatScore.num)

\* C8 happens: a remote assessment with risk_score 75 was returned and
\* cached as HIGH_RISK
C8_Witness ==
    /\ Replied
    /\ response.path = "remote"
    /\ response.result.threatScore = JsNum(75)
    /\ response.result.category = "HIGH_RISK"
    /\ analysisCache[response.url] = response.result

\* C9 (Spec): every result returned, cached or logged has a threatScore
\* that is an integer from 0 to 100.
C9_ScoreInRange ==
    \A result \in HeldResults :
        /\ result.threatScore.type = "number"
        /\ result.threatScore.num \in 0..100

\* C10 (SpecClassify): both category chains give every score the same one
\* category of the four: SAFE up to 25, SUSPICIOUS from 26 to 50, HIGH_RISK
\* from 51 to 75 and PHISHING from 76 on, above 100 included.
C10_ClassifyTotal ==
    probe.fn = "classify"
        => /\ probe.heuristic \in Categories
           /\ probe.llm = probe.heuristic
           /\ probe.threatScore.type = "number"
                => LET n == probe.threatScore.num
                   IN  /\ (probe.heuristic = "SAFE") = (n <= 25)
                       /\ (probe.heuristic = "SUSPICIOUS") = (26 <= n /\ n <= 50)
                       /\ (probe.heuristic = "HIGH_RISK") = (51 <= n /\ n <= 75)
                       /\ (probe.heuristic = "PHISHING") = (76 <= n)
                       /\ n > 100 => probe.heuristic = "PHISHING"

\* C10 happens: the score 25, a breakpoint, is classified SAFE
C10_Witness ==
    /\ probe.fn = "classify"
    /\ probe.threatScore = JsNum(25)
    /\ probe.heuristic = "SAFE"
    /\ probe.llm = "SAFE"

\* C11 (Spec): performLlmAnalysis never throws to analyzeUrl.  Every end of
\* a remote call lets the suspended evaluation return a result, and when
\* the call ended in a network error, a non-success status or a payload
\* that cannot be read (no JSON object in it, or an evidence property that
\* is no array), that result is the one performHeuristicAnalysis builds
\* for the same URL.
C11_FallbackIsHeuristic ==
    [][ (\E task \in BagToSet(tasks) : tasks' = tasks (-) SetToBag({task}))
        => /\ response'.op = "analyzeUrl"
           /\ response'.path \in FailurePaths \cup {"remote"}
           /\ response'.path \in FailurePaths
                 => response'.result
                      = At(HeuristicTable[response'.url], response'.result.timestamp) ]_vars

\* C11 happens: a remote call answered with a non-success status ends in
\* the heuristic result, here one with a score above 0
C11_Witness ==
    /\ Replied
    /\ response.path = "http_error"
    /\ response.result = At(HeuristicTable[response.url], now)
    /\ JsGreater(response.result.threatScore, 25)


\* C12 (Spec): while no DeepSeek API key is configured, a step that does
\* not end a remote call suspends no evaluation on one, and if it answers
\* a fresh evaluation of a URL string (the domain on neither list,
\* forceRefresh or no cache entry) the result has the threatScore, the
\* category and the explanation performHeuristicAnalysis gives for that
\* URL.
C12_NoKeyIsHeuristic ==
    [][ (/\ userSettings.deepseekApiKey = ""
         /\ ~ \E task \in BagToSet(tasks) : tasks' = tasks (-) SetToBag({task}))
        => /\ tasks' = tasks
           /\ (/\ response'.op = "analyzeUrl"
               /\ response'.url # UndefinedUrl
               /\ ~response'.seen.whitelisted
               /\ ~response'.seen.blacklisted
               /\ (response'.forceRefresh \/ ~response'.seen.cached))
              => /\ response'.result.threatScore
                      = HeuristicTable[response'.url].threatScore
                 /\ response'.result.category = HeuristicTable[response'.url].category
                 /\ response'.result.explanation
                      = HeuristicTable[response'.url].explanation ]_vars

\* C12 happens: with the key removed again while a remote call is still
\* pending, a URL is evaluated afresh and gets its heuristic score of 140
C12_Witness ==
    /\ Replied
    /\ response.path = "heuristic"
    /\ userSettings.deepseekApiKey = ""
    /\ tasks # EmptyBag
    /\ response.result.threatScore = JsNum(140)
    /\ response.result.category = "PHISHING"


\* the properties of the object createAnalysisResult builds
AnalysisResultFields ==
    {"url", "threatScore", "explanation", "category", "color", "timestamp"}

\* C13 (Spec): every result analyzeUrl resolves to, on the whitelist, the
\* blacklist, the cache, the fresh and the error path, carries all of url,
\* threatScore, category, explanation, color and timestamp.
C13_WellFormedResult ==
    Replied => AnalysisResultFields \subseteq DOMAIN response.result


\* C14 (SpecHistory): an evaluation suspended on its remote call follows
\* the settings in force when it was invoked.  A step that ends a remote
\* call issues the history write of the returned result if storeHistory
\* was on at the invocation and issues none if it was off, whatever
\* updateSettings did in between.
C14_SnapshotAtStart ==
    [][ (\E task \in BagToSet(tasks) : tasks' = tasks (-) SetToBag({task}))
        => IF response'.seen.storeHistory
           THEN /\ Len(historyGets') = Len(historyGets) + 1
                /\ historyGets'[Len(historyGets')].analysis = response'.result
           ELSE historyGets' = historyGets ]_vars


\* C15 (SpecHistory): no history entry is lost to interleaving.  The
\* callback of a history write, run while the log is below its limit,
\* keeps every entry the log holds, so that the log has the entries of two
\* overlapping evaluations once the callbacks of both have run.
C15_NoLostHistoryEntry ==
    [][ (/\ Len(historyGets) > 0
         /\ historyGets' = Tail(historyGets)
         /\ Len(historyStore) < HistoryLimit)
        => \A i \in 1..Len(historyStore) :
              \E j \in 1..Len(historyStore') : historyStore'[j] = historyStore[i] ]_vars


\* C16 (SpecLog): the history log never holds more than HistoryLimit
\* entries, and the callback of a history write leaves the log with the
\* new entry first, followed by the entries the log held in their order,
\* without the last of them if the log was full.
C16_NewestFirstEvictOldest ==
    [][ /\ Len(historyStore') <= HistoryLimit
        /\ (Len(historyGets) > 0 /\ historyGets' = Tail(historyGets))
              => /\ historyStore'[1] = Head(historyGets).analysis
                 /\ Tail(historyStore')
                      = IF Len(historyStore) >= HistoryLimit
                        THEN SubSeq(historyStore, 1, Len(historyStore) - 1)
                        ELSE historyStore ]_vars


\* C17 (SpecSearch): the history log is written only when storeHistory is
\* enabled.  A step that answers an evaluation or an online search while
\* storeHistory is off, and so every evaluation and search that ran while
\* it was off throughout, leaves the log and the writes on their way to it
\* as they are.  A step that answers a fresh evaluation of a URL string
\* while storeHistory is on issues exactly one write, of the returned
\* result, and the callback of a write puts its entry first in the log.
C17_HistoryOnlyWhenEnabled ==
    [][ /\ (response'.op \in {"analyzeUrl", "onlineSearch"} /\ ~userSettings.storeHistory)
            => /\ historyStore' = historyStore
               /\ historyGets' = historyGets
        /\ (/\ response'.op = "analyzeUrl"
            /\ userSettings.storeHistory
            /\ response'.url # UndefinedUrl
            /\ ~response'.seen.whitelisted
            /\ ~response'.seen.blacklisted
            /\ (response'.forceRefresh \/ ~response'.seen.cached))
            => /\ historyStore' = historyStore
               /\ historyGets' = Append(historyGets, [analysis |-> response'.result,
                                                      snapshot |-> historyStore])
        /\ (Len(historyGets) > 0 /\ historyGets' = Tail(historyGets))
            => historyStore'[1] = Head(historyGets).analysis ]_vars

\* C17 happens: an online search invoked and answered with storeHistory
\* off has left the log alone, which holds the entry of a remote
\* evaluation that ran with storeHistory on throughout
C17_Witness ==
    /\ response.op = "onlineSearch"
    /\ response.path = "parsed"
    /\ ~response.seen.storeHistory
    /\ ~userSettings.storeHistory
    /\ historyGets = << >>
    /\ Len(historyStore) = 1
    /\ historyStore[1] \in CachedResults
    /\ historyStore[1].threatScore = JsNum(75)


\* C18 (SpecSettings): updateSettings merges only the fields present in
\* the request.  After the handler every settings field that the request
\* carries has the value of the request, an empty list and an empty key
\* included, and every other field has the value it had before.
C18_MergeOnlyPresent ==
    [][ response'.op = "updateSettings"
        => \A f \in FieldNames :
              userSettings'[f] = IF f \in probe'.settings.fields
                                 THEN probe'.settings.values[f]
                                 ELSE userSettings[f] ]_vars

\* C18 happens: a request with an empty whitelist and an empty DeepSeek
\* key and nothing else has emptied both, and the fields it did not carry
\* still have the values loaded at startup, which are not the defaults
C18_Witness ==
    /\ response.op = "updateSettings"
    /\ probe.settings.fields = {"whitelistedDomains", "deepseekApiKey"}
    /\ userSettings = [EarlierSettings EXCEPT !.whitelistedDomains = {},
                                              !.deepseekApiKey = ""]

\* C19 (SpecSettings): settings are persisted after every mutation.  After
\* each updateSettings the stored urlguard_settings is the userSettings
\* object the handlers read from then on.
C19_PersistedEqualsMemory ==
    [][ response'.op = "updateSettings"
        => /\ storedSettings'.present
           /\ storedSettings'.value = userSettings' ]_vars

\* C19 happens: after the startup load an update has changed the settings
\* and the store holds the changed settings
C19_Witness ==
    /\ response.op = "updateSettings"
    /\ ~loadPending.pending
    /\ storedSettings.present
    /\ storedSettings.value = userSettings
    /\ userSettings = [EarlierSettings EXCEPT !.showNotifications = TRUE]


\* an evaluation is suspended on a remote call that never ends
HungPending == \E task \in BagToSet(tasks) : task.url \in HungUrls

\* C20 (SpecLive): a hung remote call stalls only the evaluation awaiting
\* it.  An evaluation is suspended only if it is fresh (the domain on
\* neither list, forceRefresh or no cache entry), so a whitelisted, a
\* blacklisted and a cached URL are answered in the step that invokes
\* them; and every evaluation suspended on a remote call that ends is
\* answered at some time while the hung one stays suspended.
C20_HungCallStallsOnlyItself ==
    /\ [](\A task \in BagToSet(tasks) :
             /\ ~task.seen.whitelisted
             /\ ~task.seen.blacklisted
             /\ (task.forceRefresh \/ ~task.seen.cached))
    /\ \A task \in RespondingTasks :
          (HungPending /\ BagIn(task, tasks))
             ~> (/\ HungPending
                 /\ Replied
                 /\ response.url = task.url
                 /\ response.forceRefresh = task.forceRefresh
                 /\ response.seen = task.seen
                 /\ response.path \in FailurePaths \cup {"remote"})

\* C20 happens: with one remote call hung, the evaluation of another URL
\* was suspended on a second call and has been answered with the remote
\* result
C20_Witness ==
    /\ HungPending
    /\ Replied
    /\ response.url \in RespondingUrls
    /\ response.path = "remote"
    /\ response.result.threatScore = JsNum(75)


\* C21 (SpecHistory): overlapping evaluations of one URL, last write wins.
\* A step in which the remote call of a suspended evaluation ends answers
\* that evaluation, takes it alone out of the suspended evaluations (any
\* other evaluation of the same URL stays suspended until its own call
\* ends), and leaves the cache holding the returned result under its URL
\* and every other key as it was: of two overlapping evaluations, the
\* entry after both have ended is the result of the one that ended last.
C21_LastWriteWins ==
    [][ (response'.op = "analyzeUrl" /\ response'.path \in FailurePaths \cup {"remote"})
        => /\ analysisCache' = Put(analysisCache, response'.url, response'.result)
           /\ \E task \in BagToSet(tasks) :
                 /\ task.url = response'.url
                 /\ task.seen = response'.seen
                 /\ tasks' = tasks (-) SetToBag({task}) ]_vars

\* C21 happens: an evaluation invoked while the URL had no cache entry ends
\* on the heuristic fallback after another remote evaluation of the same
\* URL, which ended between its invocation and its end, had cached and
\* logged a score of 75; the cache holds the result of the one that ended
\* last
C21_Witness ==
    /\ Replied
    /\ response.path = "network_error"
    /\ ~response.seen.cached
    /\ ~response.forceRefresh
    /\ tasks = EmptyBag
    /\ analysisCache[response.url] = response.result
    /\ \E earlier \in LoggedResults :
          /\ earlier.url = response.url
          /\ earlier.threatScore = JsNum(75)
          /\ earlier.timestamp < response.result.timestamp

\* C22 (SpecMonitor): the cache only grows.  No step (an evaluation asked
\* for by message or started by a navigation, the end of a remote call, a
\* settings update of monitoring or of a list, an online search, a write
\* to the history log, clearHistory) takes a URL out of the cache.
C22_CacheNeverShrinks ==
    [][ \A url \in DOMAIN analysisCache : url \in DOMAIN analysisCache' ]_vars

\* C22 happens: clearHistory has just been handled with the log emptied,
\* the domain of the cached URL is on the blacklist, monitoring has been
\* switched off, and the URL still has its cache entry
C22_Witness ==
    /\ response.op = "clearHistory"
    /\ historyStore = << >>
    /\ "example.com" \in userSettings.blacklistedDomains
    /\ ~userSettings.enableRealTimeMonitoring
    /\ "https://www.example.com/" \in DOMAIN analysisCache

\* a step in which analyzeUrl is invoked with a tab: it returns on one of
\* the steps before the fetch, or a new evaluation with a tab is suspended
StartsTabEvaluation ==
    \/ /\ response'.op = "analyzeUrl"
       /\ response'.hasTab
       /\ response'.path \in {"whitelist", "blacklist", "cache", "heuristic", "error"}
    \/ \E task \in BagToSet(tasks') :
          /\ task.op = "analyzeUrl"
          /\ task.hasTab
          /\ CopiesIn(task, tasks') > CopiesIn(task, tasks)

\* C23 (SpecMonitor): a navigation is evaluated only in the top frame with
\* monitoring on.  A step in which the listener returns without an
\* evaluation was given a sub-frame or found enableRealTimeMonitoring off,
\* and leaves the cache, the history log, the writes on their way to it and
\* the suspended evaluations unchanged; a step that invokes analyzeUrl with
\* the tab of a navigation was given the top frame and found
\* enableRealTimeMonitoring on.
C23_NavigationGuard ==
    [][ /\ (response'.op = "onCompleted")
           => /\ ~(probe'.mainFrame /\ probe'.monitoring)
              /\ analysisCache' = analysisCache
              /\ historyStore' = historyStore
              /\ historyGets' = historyGets
              /\ tasks' = tasks
        /\ StartsTabEvaluation
           => /\ probe'.fn = "onCompleted"
              /\ probe'.mainFrame
              /\ probe'.monitoring
              /\ userSettings.enableRealTimeMonitoring ]_vars

\* C23 happens: a top-frame navigation is ignored because monitoring is
\* off, while the cache and the history log hold a result
C23_Witness ==
    /\ response.op = "onCompleted"
    /\ probe.mainFrame
    /\ ~probe.monitoring
    /\ DOMAIN analysisCache # {}
    /\ Len(historyStore) > 0

\* the messages of the throws of performOnlineSearch before its fetch
SearchStartMessages ==
    {SearchStartError(key, urlParses) :
        key \in {"", "bad-key", "sk-key"}, urlParses \in BOOLEAN} \ {""}

\* the values performOnlineSearch(url) can resolve to, whatever the state
\* of the program: one for each throw before the fetch and one for each
\* way the remote call can end
SearchResultsFor(url) ==
    {SearchErrorResult(message) : message \in SearchStartMessages}
    \cup {SearchTable[url][outcome] : outcome \in SearchOutcomes}

\* C24 (SpecSearch): the online search and the cache are independent.  A
\* step that starts an online search or answers one leaves the cache
\* unchanged, and the value it answers with is one of those the URL, the
\* API key and the remote answer determine, whatever the cache holds.
C24_SearchIgnoresCache ==
    [][ /\ (response'.op = "onlineSearch")
           => /\ analysisCache' = analysisCache
              /\ response'.result \in SearchResultsFor(response'.url)
        /\ (\E task \in BagToSet(tasks') :
               task.op = "onlineSearch" /\ CopiesIn(task, tasks') > CopiesIn(task, tasks))
           => analysisCache' = analysisCache ]_vars

\* C24 happens: an online search finds the site legitimate while the cache
\* holds a result of 75 for the same URL, and the cache keeps it
C24_Witness ==
    /\ response.op = "onlineSearch"
    /\ response.path = "parsed"
    /\ response.result.isLegitimate
    /\ response.url \in DOMAIN analysisCache
    /\ analysisCache[response.url].threatScore = JsNum(75)

SearchResultFields == {"confidence", "isLegitimate", "summary", "keyFindings", "recommendations"}

\* C25 (SpecAssess): performOnlineSearch never throws.  Every step that
\* ends the remote call of a suspended online search answers the search,
\* and every answer (to a request met with a missing or malformed API key
\* or without a URL, and after a remote call that was rejected, got a
\* non-success status, an answer of the wrong structure, an empty one or
\* JSON that does not parse) has exactly the properties confidence,
\* isLegitimate, summary, keyFindings and recommendations, with
\* isLegitimate a boolean that is false on the two catch paths.
C25_SearchNeverThrows ==
    [][ /\ (\E task \in BagToSet(tasks) :
               task.op = "onlineSearch" /\ CopiesIn(task, tasks') < CopiesIn(task, tasks))
           => response'.op = "onlineSearch"
        /\ (response'.op = "onlineSearch")
           => /\ DOMAIN response'.result = SearchResultFields
              /\ response'.result.isLegitimate \in BOOLEAN
              /\ response'.path \in {"error", "fallback"}
                 => response'.result.isLegitimate = FALSE ]_vars

\* C25 happens: a request met with a malformed key is answered with the
\* error result while the searches started under the earlier key are
\* still suspended
C25_Witness ==
    /\ response.op = "onlineSearch"
    /\ response.path = "error"
    /\ userSettings.openaiApiKey = "bad-key"
    /\ response.result.confidence = JsNum(0)
    /\ response.result.isLegitimate = FALSE
    /\ response.result.keyFindings = <<"Search failed", "Invalid OpenAI API key format">>
    /\ tasks # EmptyBag

\* the points of the scoring table, row by row: the ninth row adds the
\* brand similarity score
SpecRowPoints(similarity) == <<15, 50, 45, 15, 20, 30, 20, 40, similarity, 45, 15, 15>>

\* the sum of the points of a set of rows
RECURSIVE SumRows(_, _)
SumRows(rows, points) ==
    IF rows = {} THEN 0
    ELSE LET k == CHOOSE row \in rows : TRUE
         IN  points[k] + SumRows(rows \ {k}, points)

SpecDomain(hostname, labels) ==
    IF Len(labels) <= 2 THEN hostname
    ELSE IF labels[Len(labels) - 1] \in {"co", "com", "org", "net", "gov", "edu"}
         THEN Join(SubSeq(labels, Len(labels) - 2, Len(labels)), ".")
    ELSE Join(SubSeq(labels, Len(labels) - 1, Len(labels)), ".")

\* C27 (SpecProbe): for a URL that parses, extractDomain returns the
\* hostname if it has at most 2 labels, its last three labels if the
\* second-to-last is one of co, com, org, net, gov, edu, and its last two
\* labels otherwise; https://mail.google.co.uk/path gives google.co.uk.
C27_DomainExtraction ==
    (probe.fn = "extractDomain" /\ probe.ok)
        => /\ probe.domain = SpecDomain(probe.hostname, Split(probe.hostname, "."))
           /\ probe.url = "https://mail.google.co.uk/path" => probe.domain = "google.co.uk"

\* C27 happens: a hostname of four labels with a second-level label is cut
\* to its last three
C27_Witness ==
    /\ probe.fn = "extractDomain"
    /\ probe.ok
    /\ probe.hostname = "shop.example.org.au"
    /\ probe.domain = "example.org.au"

\* risk_score is missing, is no number, or is a number outside 0..100
OutOfRange(risk_score) ==
    \/ risk_score.type # "number"
    \/ risk_score.num < 0
    \/ risk_score.num > 100

\* C28 (SpecProbe): when the remote answer holds a JSON object whose
\* risk_score is missing, no number, below 0 or above 100,
\* performLlmAnalysis returns the heuristic result for the URL.
C28_OutOfRangeFallsBack ==
    (probe.fn = "performLlmAnalysis" /\ OutOfRange(probe.outcome.risk_score))
        => probe.result = probe.heuristic

\* C29 (SpecProbe): the excessive-subdomains check (row 11 of the table)
\* triggers exactly when the hostname has more than 3 labels.
C29_ExcessiveSubdomains ==
    probe.fn = "performHeuristicAnalysis"
        => (11 \in probe.rows <=> Len(Split(probe.hostname, ".")) > 3)

\* the first n elements of a sequence, all of them if it has fewer
FirstN(seq, n) == IF Len(seq) > n THEN SubSeq(seq, 1, n) ELSE seq

RECURSIVE SumSeq(_)
SumSeq(seq) == IF Len(seq) = 0 THEN 0 ELSE Head(seq) + SumSeq(Tail(seq))

\* C30 (SpecProbe): the explanation of a heuristic result is the reasons of
\* the first 3 checks that triggered, in the order of the checks, joined
\* with ". "; no reason after the third is in it; and the score is the sum
\* of the points of all the checks that triggered, those whose reason was
\* cut included.
C30_FirstThreeReasons ==
    probe.fn = "performHeuristicAnalysis"
        => /\ probe.result.explanation = Join(FirstN(probe.reasons, 3), ". ")
           /\ \A k \in 4..Len(probe.reasons) :
                 ~Includes(probe.result.explanation, probe.reasons[k])
           /\ probe.result.threatScore = JsNum(SumSeq(probe.points))

\* C30 happens: five checks trigger, the explanation holds the first three
\* reasons and the score holds the points of all five
C30_Witness ==
    /\ probe.fn = "performHeuristicAnalysis"
    /\ Len(probe.reasons) = 5
    /\ probe.result.explanation =
          "Not using HTTPS. Uses Punycode (potential IDN homograph attack). Suspicious top-level domain"
    /\ probe.points = <<15, 50, 20, 40, 15>>
    /\ probe.result.threatScore = JsNum(140)

(***************************************************************************)
(* Brand-similarity detector                                               *)
(***************************************************************************)

\* the least element of a non-empty set of numbers
Least(S) == CHOOSE m \in S : \A x \in S : m <= x

\* the greatest element of a non-empty set of numbers
Greatest(S) == CHOOSE m \in S : \A x \in S : m >= x

\* whether a brand is a candidate that is near the domain but not equal to
\* it: at least 4 letters and 0.7 < 1 - distance / m < 1
Qualifies(domain, brand) ==
    /\ Len(brand) >= 4
    /\ 10 * levenshteinDistance(domain, brand) < 3 * Max2(Len(domain), Len(brand))
    /\ levenshteinDistance(domain, brand) > 0

\* floor(similarity * 50) of a brand that qualifies
Contribution(domain, brand) ==
    (50 * (Max2(Len(domain), Len(brand)) - levenshteinDistance(domain, brand)))
        \div Max2(Len(domain), Len(brand))

Contributions(domain, brands) ==
    {Contribution(domain, brands[k]) :
        k \in {i \in 1..Len(brands) : Qualifies(domain, brands[i])}}

\* C31: checkBrandSimilarity returns an integer from 0 to 50, the greatest
\* floor(similarity * 50) over the brands of at least 4 letters whose
\* similarity 1 - distance / max(len(domain), len(brand)) is strictly
\* between 0.7 and 1, and 0 when no brand qualifies
C31_SimilarityIsMaxContribution ==
    probe.fn = "checkBrandSimilarity" =>
        /\ probe.result \in 0..50
        /\ \A scores \in {Contributions(probe.domain, probe.brands)} :
              probe.result = IF scores = {} THEN 0 ELSE Greatest(scores)

C31_Witness ==
    /\ probe.fn = "checkBrandSimilarity"
    /\ probe.domain = "paypa1"
    /\ probe.brands = <<"google", "paypal">>
    /\ probe.result = 41

\* C32: a host that is a brand name followed by .com gets no points from
\* the brand-similarity check
C32_BrandOwnerScoresZero ==
    probe.fn = "performHeuristicAnalysis" =>
        \A k \in 1..Len(commonBrands) :
            probe.hostname = commonBrands[k] \o ".com" =>
                probe.similarity = 0 /\ 9 \notin probe.rows

\* the edit distance by its recursive definition: delete the first
\* character of a, insert the first character of b, or match or replace
\* the one by the other, each at a cost of 1 except a match
RECURSIVE EditDistance(_, _)
EditDistance(a, b) ==
    IF Len(a) = 0 THEN Len(b)
    ELSE IF Len(b) = 0 THEN Len(a)
    ELSE Least({EditDistance(SubSeq(a, 2, Len(a)), b) + 1,
                EditDistance(a, SubSeq(b, 2, Len(b))) + 1,
                EditDistance(SubSeq(a, 2, Len(a)), SubSeq(b, 2, Len(b)))
                    + IF CharAt(a, 1) = CharAt(b, 1) THEN 0 ELSE 1})

\* C33: levenshteinDistance is the edit distance with unit costs, for the
\* empty word too, it is the same in both orders of its arguments, and it
\* is 3 from kitten to sitting
C33_ClassicLevenshtein ==
    probe.fn = "levenshteinDistance" =>
        /\ \A distance \in {EditDistance(probe.a, probe.b)} : probe.result = distance
        /\ probe.result = DistanceProbeTable[probe.b][probe.a].result
        /\ (probe.a = "kitten" /\ probe.b = "sitting" => probe.result = 3)

C33_Witness ==
    /\ probe.fn = "levenshteinDistance"
    /\ probe.a = "kitten"
    /\ probe.b = "sitting"
    /\ probe.result = 3

(***************************************************************************)
(* URL feature extractor                                                   *)
(***************************************************************************)

\* C34: parseUrl always returns a record, and for a URL that does not
\* parse every string field of it is empty, every flag is false and every
\* number is 0, except urlLength, which is the length of the URL
C34_ExtractorNeverFails ==
    probe.fn = "parseUrl" =>
        /\ ~probe.threw
        /\ ~probe.parsed =>
              /\ probe.record.fullUrl = ""
              /\ probe.record.protocol = ""
              /\ probe.record.hostname = ""
              /\ probe.record.domain = ""
              /\ probe.record.path = ""
              /\ probe.record.query = ""
              /\ ~probe.record.hasSubdomains
              /\ ~probe.record.isPunycode
              /\ ~probe.record.hasUnicodeChars
              /\ probe.record.numSpecialChars = 0
              /\ probe.record.containsCommonBrands = << >>
              /\ probe.record.urlLength = Len(probe.url)

(***************************************************************************)
(* The prose fallback of the online search                                 *)
(***************************************************************************)

\* the gap between the two keyword counts of a probe of parseTextResponse
KeywordGap(p) == AbsDiff(p.legitimateScore, p.suspiciousScore)

\* C35: parseTextResponse calls the site legitimate exactly when more
\* positive than negative keywords occur in the text (a tie gives false),
\* its confidence is between 30 and 90, is the same for texts with the
\* same gap between the counts and is no smaller for a larger gap, and it
\* returns at most 3 findings
C35_ProseFallback ==
    probe.fn = "parseTextResponse" =>
        /\ probe.result.isLegitimate = JsBool(probe.legitimateScore > probe.suspiciousScore)
        /\ probe.result.confidence.type = "number"
        /\ probe.result.confidence.num \in 30..90
        /\ Len(probe.result.keyFindings) <= 3
        /\ \A text \in ProseTexts :
              /\ KeywordGap(TextProbeTable[text]) = KeywordGap(probe) =>
                    TextProbeTable[text].result.confidence = probe.result.confidence
              /\ KeywordGap(TextProbeTable[text]) < KeywordGap(probe) =>
                    TextProbeTable[text].result.confidence.num <= probe.result.confidence.num

\* a tie of one keyword each: not legitimate, confidence 30
C35_Witness ==
    /\ probe.fn = "parseTextResponse"
    /\ probe.text = "safe but suspicious"
    /\ probe.legitimateScore = 1
    /\ probe.suspiciousScore = 1
    /\ probe.result.isLegitimate = JsBool(FALSE)
    /\ probe.result.confidence = JsNum(30)
    /\ Len(probe.result.keyFindings) = 3

\* C36: the confidence performOnlineSearch returns for a parsed remote
\* answer is the remote confidence brought into 0..100, so that a remote
\* value from 0 to 100 is returned as it is, 0 too, and 50 stands in only
\* for a missing value
C36_ConfidenceClamped ==
    probe.fn = "performOnlineSearch" =>
        probe.result.confidence =
            IF probe.outcome.parsed.confidence = JsUndefined
            THEN JsNum(50)
            ELSE ClampConfidence(probe.outcome.parsed.confidence)

(***************************************************************************)
(* The whitelist button of the popup                                       *)
(***************************************************************************)

\* C37: whitelisting through the popup takes effect.  Once the whitelist
\* button has put the domain of the popup's page on the whitelist of the
\* background, the forced evaluation of that page the popup asks for
\* returns threatScore 0 and category SAFE.
C37_WhitelistTakesEffect ==
    [][ ( /\ popup.open
          /\ popup.currentDomain \in userSettings.whitelistedDomains
          /\ response'.op = "analyzeUrl"
          /\ response'.forceRefresh
          /\ response'.url = popup.currentUrl )
        => /\ response'.result.threatScore = JsNum(0)
           /\ response'.result.category = "SAFE" ]_vars

(***************************************************************************)
(* clearHistory and the history writes in flight                           *)
(***************************************************************************)

\* C38: clearHistory is not undone by a history write in flight.  The log
\* is empty only as installed and after clearHistory, and nothing was
\* stored before the first; so the callback of a history write that runs
\* on an empty log must leave the log with the new entry alone, also when
\* it had read the log before clearHistory.
C38_ClearNotUndone ==
    [][ (/\ historyStore = << >>
         /\ Len(historyGets) > 0
         /\ historyGets' = Tail(historyGets))
        => historyStore' = <<Head(historyGets).analysis>> ]_vars

(***************************************************************************)
(* A settings update before the startup load has completed                 *)
(***************************************************************************)

\* C39: a settings update handled while the startup load is under way is
\* not lost.  Once the callback of the load has run, the settings hold
\* what the last update carried and are the settings that are stored.
C39_EarlyUpdateKept ==
    (~loadPending.pending /\ probe.fn = "updateSettings") =>
        /\ storedSettings.present
        /\ userSettings = storedSettings.value
        /\ \A f \in probe.settings.fields : userSettings[f] = probe.settings.values[f]

====
